---- MODULE Spec2Model ----
(***************************************************************************)
(* Model of the cached data layer of pi-disp: the SQLite-backed Cache      *)
(* (backend/cache.py), the news aggregator (backend/data_fetchers/news.py) *)
(* and the weather fetcher (backend/data_fetchers/weather.py).             *)
(*                                                                         *)
(* Time is the value time.time() returns, in whole seconds.  Python values *)
(* and JSON documents are records of one fixed shape each, so that         *)
(* json.dumps / json.loads are conversions between two different domains.  *)
(***************************************************************************)
EXTENDS Integers, Sequences, FiniteSets, TLC

\* ------------------------------------------------------------------ bounds
\* The clock stops advancing at MaxTime.
MaxTime == 2
\* The ttl_seconds arguments tried with Cache.set are 0 .. MaxTTL.
MaxTTL == 1
\* get_news is called with limit in 0 .. MaxLimit.
MaxLimit == 2
\* A feed document holds at most MaxItems entries.
MaxItems == 1

VARIABLES
    store,   \* the rows of table `cache`: key -> [value, expires_at, created_at]
    origin,  \* history: for each stored row, the set() call that wrote it
             \* (and, for get_news, the limit of the request that made the call)
    now,     \* the clock, time.time()
    last,    \* the last completed call: its arguments and what it returned
    config,  \* the Config object: the YAML file's data and the environment
    call,    \* the get_news call in progress: its position and local variables
    cache_instance,  \* the module global _cache_instance: "None" or "Cache"
    inflight,  \* concurrent callers of the Cache: where each is in its operation
    completed_sets  \* history: the <<key, value>> of every set() that committed

vars == <<store, origin, now, last, config, call, cache_instance, inflight,
          completed_sets>>

\* ------------------------------------------------------- Python values
\* A Python value: its type t, a scalar payload s, and its items.
Py(t, s, items) == [t |-> t, s |-> s, items |-> items]
PyNone == Py("NoneType", "", <<>>)

\* An exception raised to the caller, with its message.
CacheError(msg) == Py("CacheError", msg, <<>>)
ExceptionTypes == {"CacheError", "NewsError", "WeatherConfigError", "WeatherAPIError"}
IsException(r) == r.t \in ExceptionTypes

\* The values handed to Cache.set: None, a str, a list, a tuple, and a set
\* (which json cannot encode).
CacheValues ==
    { PyNone,
      Py("str", "x", <<>>),
      Py("list", "", <<>>),
      Py("tuple", "", <<>>),
      Py("set", "", <<>>) }

\* The types json.loads can produce: what a JSON document decodes to.
JsonNativeTypes == {"NoneType", "str", "list", "dict"}

\* ------------------------------------------------------- JSON documents
\* The TEXT stored in column `value`: a JSON document of kind j.
Json(j, s, items) == [j |-> j, s |-> s, items |-> items]

\* json.dumps raises TypeError for a value it has no encoding for.
CanDump(v) == v.t \in {"NoneType", "str", "list", "tuple", "dict"}

\* json.dumps: None -> null, str -> string, list and tuple -> array,
\* dict -> object.
JsonDumps(v) ==
    CASE v.t = "NoneType" -> Json("null", "", <<>>)
      [] v.t = "str"      -> Json("string", v.s, <<>>)
      [] v.t \in {"list", "tuple"} -> Json("array", "", v.items)
      [] v.t = "dict"     -> Json("object", v.s, v.items)

\* json.loads raises JSONDecodeError for text that is no JSON document.
CanLoad(doc) == doc.j \in {"null", "string", "array", "object"}

\* json.loads: null -> None, string -> str, array -> list, object -> dict.
JsonLoads(doc) ==
    CASE doc.j = "null"   -> PyNone
      [] doc.j = "string" -> Py("str", doc.s, <<>>)
      [] doc.j = "array"  -> Py("list", "", doc.items)
      [] doc.j = "object" -> Py("dict", doc.s, doc.items)

\* ------------------------------------------------------------ the table
Keys == {"k1", "k2"}
TTLs == 0 .. MaxTTL

Restrict(f, S) == [k \in (DOMAIN f) \cap S |-> f[k]]

\* Variant of the write that leaves no other row in the table.
InsertOrReplace_DropOthers(st, key, row) == [k \in {key} |-> row]

\* INSERT OR REPLACE INTO cache ... : key is the PRIMARY KEY.
InsertOrReplace(st, key, row) ==
    [k \in (DOMAIN st) \cup {key} |-> IF k = key THEN row ELSE st[k]]

\* Variant of the row written that holds a text other than json.dumps(value).
NewRow_NullValue(serialized, ttl_seconds, t) ==
    [value |-> Json("null", "", << >>), expires_at |-> t + ttl_seconds, created_at |-> t]

\* Cache.set: the row written for (value, ttl_seconds) at time t.
NewRow(serialized, ttl_seconds, t) ==
    [value |-> serialized, expires_at |-> t + ttl_seconds, created_at |-> t]

\* Variant of Cache.set with INSERT OR IGNORE: an existing row is kept.
CacheSetStore_InsertOrIgnore(st, key, value, ttl_seconds, t) ==
    IF CanDump(value) /\ key \notin DOMAIN st
    THEN InsertOrReplace(st, key, NewRow(JsonDumps(value), ttl_seconds, t))
    ELSE st

\* Variant of Cache.set that adds the items of a list to those of the array
\* the row already holds.
CacheSetStore_AppendToRow(st, key, value, ttl_seconds, t) ==
    IF ~CanDump(value) THEN st
    ELSE IF key \in DOMAIN st /\ st[key].value.j = "array" /\ value.t = "list"
    THEN InsertOrReplace(st, key,
             NewRow(Json("array", "", st[key].value.items \o value.items), ttl_seconds, t))
    ELSE InsertOrReplace(st, key, NewRow(JsonDumps(value), ttl_seconds, t))

\* Variant of Cache.set that removes the row of key when json.dumps raises.
CacheSetStore_DeleteOnError(st, key, value, ttl_seconds, t) ==
    IF CanDump(value)
    THEN InsertOrReplace(st, key, NewRow(JsonDumps(value), ttl_seconds, t))
    ELSE Restrict(st, (DOMAIN st) \ {key})

\* Cache.set: the table afterwards (unchanged when json.dumps raises).
CacheSetStore(st, key, value, ttl_seconds, t) ==
    IF CanDump(value)
    THEN InsertOrReplace(st, key, NewRow(JsonDumps(value), ttl_seconds, t))
    ELSE st

\* Cache.set: returns None, or raises CacheError when json.dumps raises.
CacheSetResult(value) ==
    IF CanDump(value) THEN PyNone ELSE CacheError("Cannot serialize value")

\* Variant of Cache.delete without the WHERE clause.
CacheDeleteStore_AllRows(st, key) == << >>

\* Cache.delete: DELETE FROM cache WHERE key = ?
CacheDeleteStore(st, key) == Restrict(st, (DOMAIN st) \ {key})
CacheDeleteResult(st, key) == key \in DOMAIN st

\* Cache.get took its "expired" branch: a row was read and time.time() > expires_at.
CacheGetExpired(st, key, t) == key \in DOMAIN st /\ t > st[key].expires_at

\* Variant of Cache.get that answers None when json.loads raises.
CacheGetValue_CorruptIsMiss(st, key, t) ==
    IF key \in DOMAIN st /\ t <= st[key].expires_at /\ CanLoad(st[key].value)
    THEN JsonLoads(st[key].value)
    ELSE PyNone

\* Cache.get: the value returned (None for no row and for an expired row).
CacheGetValue(st, key, t) ==
    IF key \notin DOMAIN st THEN PyNone
    ELSE IF t > st[key].expires_at THEN PyNone
    ELSE IF CanLoad(st[key].value) THEN JsonLoads(st[key].value)
    ELSE CacheError("Cannot deserialize cached value")

\* Variant of Cache.get without the lazy deletion of an expired row.
CacheGetStore_NoDelete(st, key, t) == st

\* Cache.get: the table afterwards (an expired row is deleted).
CacheGetStore(st, key, t) ==
    IF CacheGetExpired(st, key, t) THEN CacheDeleteStore(st, key) ELSE st

\* Variant of Cache.has that only looks for the row and ignores expires_at.
CacheHas_RowExists(st, key, t) == key \in DOMAIN st

\* Cache.has: self.get(key) is not None.
CacheHas(st, key, t) == CacheGetValue(st, key, t) # PyNone

\* Variant of Cache.clear_expired with WHERE expires_at <= now.
CacheClearExpiredStore_Leq(st, t) ==
    Restrict(st, {k \in DOMAIN st : ~(st[k].expires_at <= t)})

\* Cache.clear_expired: DELETE FROM cache WHERE expires_at < now.
CacheClearExpiredStore(st, t) ==
    Restrict(st, {k \in DOMAIN st : ~(st[k].expires_at < t)})

\* Variant of Cache.get_stats that counts expires_at <= now as expired.
CacheGetStats_ExpiredLeq(st, t) ==
    LET total   == Cardinality(DOMAIN st)
        expired == Cardinality({k \in DOMAIN st : st[k].expires_at <= t})
    IN  [total_entries |-> total, expired_entries |-> expired,
         valid_entries |-> total - expired]

\* Cache.get_stats.
CacheGetStats(st, t) ==
    LET total   == Cardinality(DOMAIN st)
        expired == Cardinality({k \in DOMAIN st : st[k].expires_at < t})
    IN  [total_entries |-> total, expired_entries |-> expired,
         valid_entries |-> total - expired]

\* The history of a row: the arguments of the set() call that wrote it.
Written(value, ttl_seconds, t) == [value |-> value, ttl |-> ttl_seconds, at |-> t]

\* get_cache(): the global instance, constructed (database file opened, table
\* and index created) if there is none yet.
GetCache(instance) == IF instance = "None" THEN "Cache" ELSE instance

\* -------------------------------------------------------- configuration
\* A configuration value: its Python type t and a number n (the int itself,
\* 1 or 0 for a bool, the length of a list).
Cfg(t, n) == [t |-> t, n |-> n]
CfgNone == Cfg("NoneType", 0)

\* Config: config_data maps the dotted keys the YAML file has to their values
\* (a key written with no value maps to None); env is the set of dotted keys
\* whose environment variable (WEATHER_API_KEY for weather.api_key) is set.
EmptyConfig == [config_data |-> << >>, env |-> {}]

\* Config.get: the environment variable first (a str), then the file, then default.
ConfigGet(cfg, key, default) ==
    IF key \in cfg.env THEN Cfg("str", 1)
    ELSE IF key \in DOMAIN cfg.config_data THEN cfg.config_data[key]
    ELSE default

\* Config.has: self.get(key) is not None.
ConfigHas(cfg, key) == ConfigGet(cfg, key, CfgNone) # CfgNone

\* Python truth of a configuration value.
Truthy(v) == v.t # "NoneType" /\ v.n # 0

\* --------------------------------------------------------- news sources
NEWS_DEFAULT_CACHE_TTL_SECONDS == 900
NewsCacheKey == "news_aggregated"

\* NewsArticle.__init__: published defaults to datetime.now().isoformat(),
\* description to "".  published is an ISO-8601 text of fixed-width fields;
\* the sort compares these texts, and a text is held as its rank in that order.
\* (dated is history: whether a published text was given to the constructor.)
NewsArticle(title, link, source, dated, published, t) ==
    [title |-> title, link |-> link, source |-> source,
     published |-> IF dated THEN published ELSE t, description |-> "",
     dated |-> dated]

\* Variant of to_dict that leaves the description out.
ToDict_NoDescription(article) ==
    [title |-> article.title, link |-> article.link, source |-> article.source,
     published |-> article.published]

\* NewsArticle.to_dict: the same five fields, as a dict.
ToDict(article) ==
    [title |-> article.title, link |-> article.link, source |-> article.source,
     published |-> article.published, description |-> article.description]

\* What fetch_articles gives the aggregator: a list of articles, or a NewsError.
Fetched(articles) == [ok |-> TRUE, articles |-> articles, error |-> ""]
FetchFailed(error) == [ok |-> FALSE, articles |-> << >>, error |-> error]

Min(a, b) == IF a < b THEN a ELSE b
\* seq[:limit] for limit >= 0.
Slice(seq, limit) == SubSeq(seq, 1, Min(limit, Len(seq)))

\* RSSFeedSource._parse_entry: None for an entry without a link.
RSSHasLink(entry) == entry.link # 0
RSSParseEntry(entry, source, t) ==
    NewsArticle("No Title", entry.link, source, entry.dated, entry.published, t)

\* Variant of fetch_articles that goes through every entry of the feed.
RSSFetchArticles_Unlimited(feed, source, limit, t) ==
    IF feed.bozo /\ feed.entries = << >>
    THEN FetchFailed("Failed to parse RSS feed")
    ELSE LET usable == SelectSeq(feed.entries, RSSHasLink)
         IN  Fetched([i \in 1 .. Len(usable) |-> RSSParseEntry(usable[i], source, t)])

\* RSSFeedSource.fetch_articles on the parsed feed `feed`.
RSSFetchArticles(feed, source, limit, t) ==
    IF feed.bozo /\ feed.entries = << >>
    THEN FetchFailed("Failed to parse RSS feed")
    ELSE LET usable == SelectSeq(Slice(feed.entries, limit), RSSHasLink)
         IN  Fetched([i \in 1 .. Len(usable) |-> RSSParseEntry(usable[i], source, t)])

\* Variant of _fetch_story that keeps a dead story.
HNStoryUsable_KeepDead(story) == story.status = "ok" /\ ~story.deleted

\* HackerNewsSource._fetch_story: None when the request fails (a timeout, an
\* HTTP error status, a body that is no JSON or is null: every exception is
\* caught) or the story is deleted or dead.
HNStoryUsable(story) == story.status = "ok" /\ ~story.deleted /\ ~story.dead
HNStoryArticle(story, t) ==
    NewsArticle("No Title", story.link, "HackerNews", story.dated, story.published, t)

\* Variant of fetch_articles that drops the unusable stories first and cuts
\* the list to `limit` afterwards.
HNFetchArticles_FilterFirst(top, limit, t) ==
    IF top.status = "timeout" THEN FetchFailed("Hacker News API request timed out")
    ELSE IF top.status = "bad_json" THEN FetchFailed("Hacker News error")
    ELSE IF top.status # "ok" THEN FetchFailed("Hacker News API request failed")
    ELSE LET usable == Slice(SelectSeq(top.stories, HNStoryUsable), limit)
         IN  Fetched([i \in 1 .. Len(usable) |-> HNStoryArticle(usable[i], t)])

\* HackerNewsSource.fetch_articles on the answer `top` of the top-stories call.
HNFetchArticles(top, limit, t) ==
    IF top.status = "timeout" THEN FetchFailed("Hacker News API request timed out")
    ELSE IF top.status = "bad_json" THEN FetchFailed("Hacker News error")
    ELSE IF top.status # "ok" THEN FetchFailed("Hacker News API request failed")
    ELSE LET usable == SelectSeq(Slice(top.stories, limit), HNStoryUsable)
         IN  Fetched([i \in 1 .. Len(usable) |-> HNStoryArticle(usable[i], t)])

\* NewsAggregator._initialize_sources: one RSS source per configured feed, in
\* the order configured, then Hacker News unless it is disabled.
FeedNames == <<"RSS: bbci", "RSS: npr">>
Sources(cfg) ==
    LET rss_feeds  == ConfigGet(cfg, "news.rss_feeds", Cfg("list", 0))
        hn_enabled == ConfigGet(cfg, "news.hackernews_enabled", Cfg("bool", 1))
    IN  [i \in 1 .. rss_feeds.n |-> [kind |-> "rss", name |-> FeedNames[i]]]
        \o (IF Truthy(hn_enabled) THEN <<[kind |-> "hn", name |-> "HackerNews"]>>
            ELSE << >>)

\* source.fetch_articles(limit=limit) for either kind of source.
FetchArticles(src, response, limit, t) ==
    IF src.kind = "rss" THEN RSSFetchArticles(response, src.name, limit, t)
    ELSE HNFetchArticles(response, limit, t)

\* ------------------------------------------------------ NewsAggregator
\* No get_news call is in progress.
Idle == [pc |-> "idle", limit |-> 0, force_refresh |-> FALSE, warm |-> FALSE,
         results |-> << >>, all_articles |-> << >>, errors |-> << >>]

\* Variant of the loop that stops at the first source that fails.
LoopDone_AbortOnError(results, sources) ==
    \/ Len(results) = Len(sources)
    \/ results # << >> /\ ~results[Len(results)].ok

\* for source in self.sources: the loop ends when every source has had its turn.
LoopDone(results, sources) == Len(results) = Len(sources)

\* errors.append(f"{source.get_source_name()}: {e}")
ErrorOf(src, result) == [source |-> src.name, error |-> result.error]

\* Variant of the loop body that keeps only the latest error.
AppendError_KeepLast(errors, src, result) == <<ErrorOf(src, result)>>

AppendError(errors, src, result) == Append(errors, ErrorOf(src, result))

\* Variant of the sort that puts x ahead of the elements equal to it.
InsertByPublished_BeforeEqual(sorted, x) ==
    LET n == Cardinality({i \in 1 .. Len(sorted) : sorted[i].published > x.published})
    IN  SubSeq(sorted, 1, n) \o <<x>> \o SubSeq(sorted, n + 1, Len(sorted))

\* list.sort(key=published, reverse=True): a stable sort, newest first.  `sorted`
\* is sorted; x goes behind every element that is not older than x.
InsertByPublished(sorted, x) ==
    LET n == Cardinality({i \in 1 .. Len(sorted) : sorted[i].published >= x.published})
    IN  SubSeq(sorted, 1, n) \o <<x>> \o SubSeq(sorted, n + 1, Len(sorted))

\* Variant of the sort without reverse=True: oldest first.
RECURSIVE SortByPublished_Ascending(_)
SortByPublished_Ascending(articles) ==
    IF articles = << >> THEN << >>
    ELSE LET rest == SortByPublished_Ascending(SubSeq(articles, 1, Len(articles) - 1))
             x    == articles[Len(articles)]
             n    == Cardinality({i \in 1 .. Len(rest) : rest[i].published <= x.published})
         IN  SubSeq(rest, 1, n) \o <<x>> \o SubSeq(rest, n + 1, Len(rest))

RECURSIVE SortByPublished(_)
SortByPublished(articles) ==
    IF articles = << >> THEN << >>
    ELSE InsertByPublished(SortByPublished(SubSeq(articles, 1, Len(articles) - 1)),
                           articles[Len(articles)])

\* Variant of get_news that sorts and converts but does not cut to limit.
ArticlesDict_Untruncated(all_articles, limit) ==
    LET sorted == SortByPublished(all_articles)
    IN  [i \in 1 .. Len(sorted) |-> ToDict(sorted[i])]

\* get_news, after the loop: the list to cache and return.
ArticlesDict(all_articles, limit) ==
    LET sorted == SortByPublished(all_articles)
    IN  Slice([i \in 1 .. Len(sorted) |-> ToDict(sorted[i])], limit)

NewsError(msg, errors) == Py("NewsError", msg, errors)

\* Variant of get_news that raises as soon as one source has failed.
GetNewsResult_RaiseOnAnyError(all_articles, errors, limit) ==
    IF errors # << >> THEN NewsError("All news sources failed", errors)
    ELSE IF all_articles = << >> THEN NewsError("No news sources configured", << >>)
    ELSE Py("list", "", ArticlesDict(all_articles, limit))

\* Variant of get_news that returns an empty list when no source failed.
GetNewsResult_EmptyListWhenNoErrors(all_articles, errors, limit) ==
    IF all_articles = << >> /\ errors # << >>
    THEN NewsError("All news sources failed", errors)
    ELSE Py("list", "", ArticlesDict(all_articles, limit))

\* get_news, after the loop: what it returns or raises.
GetNewsResult(all_articles, errors, limit) ==
    IF all_articles = << >>
    THEN IF errors # << >> THEN NewsError("All news sources failed", errors)
         ELSE NewsError("No news sources configured", << >>)
    ELSE Py("list", "", ArticlesDict(all_articles, limit))

\* Variant of the ttl lookup with the weather fetcher's default.
NewsTTL_WeatherDefault(cfg) == ConfigGet(cfg, "news.cache_duration", Cfg("int", 1800)).n

\* ttl = self.config.get('news.cache_duration', DEFAULT_CACHE_TTL_SECONDS)
NewsTTL(cfg) ==
    ConfigGet(cfg, "news.cache_duration", Cfg("int", NEWS_DEFAULT_CACHE_TTL_SECONDS)).n

\* Variant of the lookup that drops the row of key on a forced refresh.
LookupStore_InvalidateOnForce(st, key, force_refresh, t) ==
    IF force_refresh THEN Restrict(st, (DOMAIN st) \ {key})
    ELSE CacheGetStore(st, key, t)

\* if not force_refresh: cached_data = self.cache.get(cache_key): the table
\* afterwards (get deletes an expired row; a forced refresh reads nothing).
LookupStore(st, key, force_refresh, t) ==
    IF force_refresh THEN st ELSE CacheGetStore(st, key, t)

\* Variant of the cache lookup that ignores force_refresh.
GetNewsCached_IgnoreForce(st, force_refresh, t) == CacheGetValue(st, NewsCacheKey, t)

\* get_news: the cached data it looks at (none on a forced refresh).
GetNewsCached(st, force_refresh, t) ==
    IF force_refresh THEN PyNone ELSE CacheGetValue(st, NewsCacheKey, t)

\* Variant of the hit path that returns the whole cached list.
CachedSlice_NoLimit(cached_data, limit) == Py("list", "", cached_data.items)

\* return cached_data[:limit]
CachedSlice(cached_data, limit) == Py("list", "", Slice(cached_data.items, limit))

\* get_news up to the loop: the cache is consulted unless force_refresh; a hit
\* (or a CacheError) ends the call, a miss starts the fetch cycle.
BeginGetNews(limit, force_refresh) ==
    LET cached_data == GetNewsCached(store, force_refresh, now)
    IN  /\ call.pc = "idle"
        /\ store' = LookupStore(store, NewsCacheKey, force_refresh, now)
        /\ origin' = Restrict(origin, DOMAIN store')
        /\ IF cached_data # PyNone
           THEN /\ last' = [op |-> "get_news", limit |-> limit,
                            force_refresh |-> force_refresh, hit |-> TRUE,
                            warm |-> CacheHas(store, NewsCacheKey, now),
                            fetched |-> << >>, results |-> << >>,
                            result |-> IF IsException(cached_data) THEN cached_data
                                       ELSE CachedSlice(cached_data, limit)]
                /\ call' = call
           ELSE /\ last' = [op |-> "get_news_begin", limit |-> limit,
                            force_refresh |-> force_refresh]
                /\ call' = [Idle EXCEPT !.pc = "fetching", !.limit = limit,
                                        !.force_refresh = force_refresh,
                                        !.warm = CacheHas(store, NewsCacheKey, now)]
        /\ cache_instance' = GetCache(cache_instance)
        /\ UNCHANGED <<now, config, inflight, completed_sets>>

\* The fetch never returns: feedparser.parse(self.feed_url) is given no
\* timeout, so it waits for as long as the server stays silent.  (The requests
\* of the Hacker News source carry timeout=API_TIMEOUT_SECONDS: a silent server
\* is the answer "timeout" there.)
Blocks(src, response) == src.kind = "rss" /\ ~response.answered

\* One turn of the loop over self.sources: the next source is fetched and
\* answers `response`; its articles are collected, or its NewsError is.
FetchSource(response) ==
    /\ call.pc = "fetching"
    /\ ~LoopDone(call.results, Sources(config))
    /\ LET src    == Sources(config)[Len(call.results) + 1]
           result == FetchArticles(src, response, call.limit, now)
       IN  IF Blocks(src, response)
           THEN call' = [call EXCEPT !.pc = "blocked"]
           ELSE call' = [call EXCEPT
                           !.results = Append(@, result),
                           !.all_articles = IF result.ok THEN @ \o result.articles ELSE @,
                           !.errors = IF result.ok THEN @ ELSE AppendError(@, src, result)]
    /\ UNCHANGED <<store, origin, now, last, config, cache_instance,
                   inflight, completed_sets>>

\* get_news after the loop: raise when no article was collected; otherwise
\* sort, convert, truncate, cache and return.
FinishGetNews ==
    /\ call.pc = "fetching"
    /\ LoopDone(call.results, Sources(config))
    /\ LET result == GetNewsResult(call.all_articles, call.errors, call.limit)
       IN  /\ store' = IF IsException(result) THEN store
                       ELSE CacheSetStore(store, NewsCacheKey, result, NewsTTL(config), now)
           /\ origin' = IF IsException(result) THEN origin
                        ELSE InsertOrReplace(origin, NewsCacheKey,
                                             Written(result, NewsTTL(config), now)
                                             @@ [limit |-> call.limit])
           /\ last' = [op |-> "get_news", limit |-> call.limit,
                       force_refresh |-> call.force_refresh, hit |-> FALSE,
                       warm |-> call.warm,
                       fetched |-> [i \in 1 .. Len(call.results) |-> Sources(config)[i].name],
                       results |-> call.results,
                       result |-> result]
    /\ call' = Idle
    /\ UNCHANGED <<now, config, cache_instance, inflight, completed_sets>>

\* ------------------------------------------------------- WeatherFetcher
WEATHER_DEFAULT_CACHE_TTL_SECONDS == 1800
WeatherCacheKey == "weather_current"

WeatherConfigError(field) == Py("WeatherConfigError", field, << >>)
WeatherAPIError(msg) == Py("WeatherAPIError", msg, << >>)

\* WeatherFetcher._validate_config: required_fields, in the order checked.
RequiredFields == <<"weather.api_key", "weather.latitude", "weather.longitude">>

\* Variant of _validate_config that checks the API key alone.
WeatherValidateConfig_ApiKeyOnly(cfg) ==
    IF ConfigHas(cfg, RequiredFields[1]) THEN PyNone
    ELSE WeatherConfigError(RequiredFields[1])

\* WeatherFetcher._validate_config: None, or WeatherConfigError for the first
\* required field that config.has() does not find.
WeatherValidateConfig(cfg) ==
    LET missing == {i \in DOMAIN RequiredFields : ~ConfigHas(cfg, RequiredFields[i])}
    IN  IF missing = {} THEN PyNone
        ELSE WeatherConfigError(
                 RequiredFields[CHOOSE i \in missing : \A j \in missing : i <= j])

\* The API answer: numbers are held in hundredths.  num and str map the fields
\* the payload has ("main.temp", "name", ...) to their values; weather says
\* whether the "weather" list is absent, empty, or has its first item.
NumField(api_data, field) ==
    IF field \in DOMAIN api_data.num THEN api_data.num[field] ELSE 0
StrField(api_data, field, default) ==
    IF field \in DOMAIN api_data.str THEN api_data.str[field] ELSE default

\* round(x, 1) of a number in hundredths.  (A tie is rounded by the binary
\* value of the float; it is taken to the even tenth here, and no payload
\* below has one.)
Round1(x) ==
    LET q == x \div 10
        r == x % 10
    IN  10 * (IF r > 5 \/ (r = 5 /\ q % 2 = 1) THEN q + 1 ELSE q)

\* WeatherFetcher._fetch_from_api: the decoded payload, or WeatherAPIError.
FetchFromAPI(response) ==
    CASE response.status = "ok"       -> Py("dict", "api_data", <<response.data>>)
      [] response.status = "timeout"  -> WeatherAPIError("Weather API request timed out")
      [] response.status = "bad_json" -> WeatherAPIError("Invalid JSON response from API")
      [] OTHER                        -> WeatherAPIError("Weather API request failed")

\* WeatherFetcher._transform_response: api_data.get('weather', [{}])[0] raises
\* IndexError for an empty list, which becomes WeatherAPIError.
TransformResponse(api_data, cfg, t) ==
    IF api_data.weather = "empty" THEN WeatherAPIError("Failed to parse API response")
    ELSE Py("dict", "weather", <<
        [temperature |-> Round1(NumField(api_data, "main.temp")),
         feels_like |-> Round1(NumField(api_data, "main.feels_like")),
         temp_min |-> Round1(NumField(api_data, "main.temp_min")),
         temp_max |-> Round1(NumField(api_data, "main.temp_max")),
         condition |-> StrField(api_data, "weather.main", "Unknown"),
         description |-> StrField(api_data, "weather.description", "No description"),
         icon |-> StrField(api_data, "weather.icon", ""),
         humidity |-> NumField(api_data, "main.humidity"),
         pressure |-> NumField(api_data, "main.pressure"),
         wind_speed |-> Round1(NumField(api_data, "wind.speed")),
         wind_direction |-> NumField(api_data, "wind.deg"),
         cloudiness |-> NumField(api_data, "clouds.all"),
         location |-> StrField(api_data, "name", "Unknown"),
         country |-> StrField(api_data, "sys.country", ""),
         timestamp |-> t,
         units |-> ConfigGet(cfg, "weather.units", Cfg("str", 1))] >>)

\* Variant of the ttl lookup with the news aggregator's default.
WeatherTTL_NewsDefault(cfg) ==
    ConfigGet(cfg, "weather.cache_duration", Cfg("int", 900)).n

\* ttl = self.config.get('weather.cache_duration', DEFAULT_CACHE_TTL_SECONDS)
WeatherTTL(cfg) ==
    ConfigGet(cfg, "weather.cache_duration",
              Cfg("int", WEATHER_DEFAULT_CACHE_TTL_SECONDS)).n

\* get_weather: the cached data it looks at (none on a forced refresh).
GetWeatherCached(st, force_refresh, t) ==
    IF force_refresh THEN PyNone ELSE CacheGetValue(st, WeatherCacheKey, t)

\* get_weather on a miss: fetch, transform; the record, or the WeatherAPIError.
FreshWeather(response, cfg, t) ==
    LET raw_data == FetchFromAPI(response)
    IN  IF IsException(raw_data) THEN raw_data
        ELSE TransformResponse(raw_data.items[1], cfg, t)

\* get_current_weather: WeatherFetcher(config), then get_weather(force_refresh).
\* `response` is what the API answers if it is asked.
GetCurrentWeather(force_refresh, response) ==
    LET invalid     == WeatherValidateConfig(config)
        cached_data == GetWeatherCached(store, force_refresh, now)
        clean_data  == FreshWeather(response, config, now)
        hit         == cached_data # PyNone
        reads       == IF force_refresh THEN 0 ELSE 1
    IN  /\ call.pc = "idle"
        /\ IF IsException(invalid)
           THEN /\ last' = [op |-> "get_current_weather", force_refresh |-> force_refresh,
                            warm |-> CacheHas(store, WeatherCacheKey, now),
                            constructed |-> FALSE, hit |-> FALSE, cache_reads |-> 0,
                            cache_writes |-> 0, api_calls |-> 0, result |-> invalid]
                /\ UNCHANGED <<store, origin>>
           ELSE IF hit
           THEN /\ last' = [op |-> "get_current_weather", force_refresh |-> force_refresh,
                            warm |-> CacheHas(store, WeatherCacheKey, now),
                            constructed |-> TRUE, hit |-> TRUE, cache_reads |-> reads,
                            cache_writes |-> 0, api_calls |-> 0, result |-> cached_data]
                /\ UNCHANGED <<store, origin>>
           ELSE /\ last' = [op |-> "get_current_weather", force_refresh |-> force_refresh,
                            warm |-> CacheHas(store, WeatherCacheKey, now),
                            constructed |-> TRUE, hit |-> FALSE, cache_reads |-> reads,
                            cache_writes |-> IF IsException(clean_data) THEN 0 ELSE 1,
                            api_calls |-> 1, response |-> response,
                            result |-> clean_data]
                /\ LET looked == LookupStore(store, WeatherCacheKey, force_refresh, now)
                   IN  IF IsException(clean_data)
                       THEN /\ store' = looked
                            /\ origin' = Restrict(origin, DOMAIN store')
                       ELSE /\ store' = CacheSetStore(looked, WeatherCacheKey, clean_data,
                                                      WeatherTTL(config), now)
                            /\ origin' = InsertOrReplace(
                                             Restrict(origin, DOMAIN looked), WeatherCacheKey,
                                             Written(clean_data, WeatherTTL(config), now))
        /\ cache_instance' = GetCache(cache_instance)
        /\ UNCHANGED <<now, config, call, inflight, completed_sets>>

\* ------------------------------------------------------ concurrent callers
Callers == {"c1", "c2"}

\* A caller that is in no Cache operation; `row` is then of no meaning.
NoRow == [value |-> Json("null", "", << >>), expires_at |-> 0, created_at |-> 0]
IdleCaller == [pc |-> "idle", key |-> "", found |-> FALSE, row |-> NoRow]
NoCaller == [c \in Callers |-> IdleCaller]

\* ----------------------------------------------------- Cache operations
Set(key, value, ttl_seconds) ==
    /\ store' = CacheSetStore(store, key, value, ttl_seconds, now)
    /\ origin' = IF CanDump(value)
                 THEN InsertOrReplace(origin, key, Written(value, ttl_seconds, now))
                 ELSE origin
    /\ last' = [op |-> "set", key |-> key, value |-> value, ttl |-> ttl_seconds,
                existed |-> key \in DOMAIN store,
                result |-> CacheSetResult(value)]
    /\ UNCHANGED <<now, config, call, cache_instance, inflight, completed_sets>>

Get(key) ==
    /\ store' = CacheGetStore(store, key, now)
    /\ origin' = Restrict(origin, DOMAIN store')
    /\ last' = [op |-> "get", key |-> key, expired |-> CacheGetExpired(store, key, now),
                result |-> CacheGetValue(store, key, now)]
    /\ UNCHANGED <<now, config, call, cache_instance, inflight, completed_sets>>

Delete(key) ==
    /\ store' = CacheDeleteStore(store, key)
    /\ origin' = Restrict(origin, DOMAIN store')
    /\ last' = [op |-> "delete", key |-> key, result |-> CacheDeleteResult(store, key)]
    /\ UNCHANGED <<now, config, call, cache_instance, inflight, completed_sets>>

Clear ==
    /\ store' = << >>
    /\ origin' = << >>
    /\ last' = [op |-> "clear", result |-> Cardinality(DOMAIN store)]
    /\ UNCHANGED <<now, config, call, cache_instance, inflight, completed_sets>>

ClearExpired ==
    /\ store' = CacheClearExpiredStore(store, now)
    /\ origin' = Restrict(origin, DOMAIN store')
    /\ last' = [op |-> "clear_expired",
                result |-> Cardinality(DOMAIN store) - Cardinality(DOMAIN store')]
    /\ UNCHANGED <<now, config, call, cache_instance, inflight, completed_sets>>

Has(key) ==
    /\ store' = CacheGetStore(store, key, now)
    /\ origin' = Restrict(origin, DOMAIN store')
    /\ last' = [op |-> "has", key |-> key, expired |-> CacheGetExpired(store, key, now),
                result |-> CacheHas(store, key, now)]
    /\ UNCHANGED <<now, config, call, cache_instance, inflight, completed_sets>>

GetStats ==
    /\ last' = [op |-> "get_stats", result |-> CacheGetStats(store, now)]
    /\ UNCHANGED <<store, origin, now, config, call, cache_instance,
                   inflight, completed_sets>>

\* Time passes between two calls.
Tick ==
    /\ call.pc = "idle"
    /\ now < MaxTime
    /\ now' = now + 1
    /\ last' = [op |-> "tick"]
    /\ UNCHANGED <<store, origin, config, call, cache_instance, inflight, completed_sets>>

\* A new Cache on an empty database file.
Init ==
    /\ store = << >>
    /\ origin = << >>
    /\ now = 0
    /\ last = [op |-> "init"]
    /\ config = EmptyConfig
    /\ call = Idle
    /\ cache_instance = "Cache"
    /\ inflight = NoCaller
    /\ completed_sets = {}

SetAny == \E key \in Keys, value \in CacheValues, ttl_seconds \in TTLs :
              Set(key, value, ttl_seconds)
GetAny == \E key \in Keys : Get(key)
DeleteAny == \E key \in Keys : Delete(key)
HasAny == \E key \in Keys : Has(key)

Next ==
    \/ SetAny
    \/ GetAny
    \/ DeleteAny
    \/ Clear
    \/ ClearExpired
    \/ HasAny
    \/ GetStats
    \/ Tick

Spec == Init /\ [][Next]_vars

\* ------------------------------------------------ the Cache across restarts
\* The database file: whether table `cache` exists in it, and the rows.
DbFile(exists, rows) == [exists |-> exists, rows |-> rows]

\* Variant of _initialize_database that creates the table anew.
InitializeDatabase_Recreate(file) == DbFile(TRUE, << >>)

\* Cache._initialize_database: CREATE TABLE IF NOT EXISTS cache (and the index
\* likewise): a table that exists is left as it is.
InitializeDatabase(file) == IF file.exists THEN file ELSE DbFile(TRUE, << >>)

\* The process ends and a new one constructs Cache(db_path) on the same file.
\* What the process held in memory is gone; the file is what it was.  (before
\* is history: the get that directly preceded the restart, if one did.)
Restart ==
    /\ store' = InitializeDatabase(DbFile(TRUE, store)).rows
    /\ origin' = Restrict(origin, DOMAIN store')
    /\ cache_instance' = GetCache("None")
    /\ last' = [op |-> "restart",
                before |-> IF last.op = "get" THEN last ELSE [op |-> "other"]]
    /\ UNCHANGED <<now, config, call, inflight, completed_sets>>

NextRestart ==
    \/ SetAny
    \/ GetAny
    \/ DeleteAny
    \/ Restart
    \/ Tick

SpecRestart == Init /\ [][NextRestart]_vars

\* ------------------------------------------- the news and weather service
Limits == 0 .. MaxLimit
Stamps == {1, 2}

\* The sequences over S of length at most n.
SeqsUpTo(S, n) == UNION {[1 .. m -> S] : m \in 0 .. n}

\* A feed entry: with a link or without, with a published date or without.
FeedEntryKinds ==
    {[link |-> 0, dated |-> FALSE, published |-> 0],
     [link |-> 1, dated |-> FALSE, published |-> 0]}
    \cup {[link |-> 1, dated |-> TRUE, published |-> p] : p \in Stamps}

\* What feedparser.parse returns: entry i of the document has link i.
Numbered(doc) == [i \in DOMAIN doc |-> [doc[i] EXCEPT !.link = IF @ = 0 THEN 0 ELSE i]]
\* The last one is a server that accepts the request and never answers.
FeedResponses ==
    {[answered |-> TRUE, bozo |-> FALSE, entries |-> Numbered(doc)] :
        doc \in SeqsUpTo(FeedEntryKinds, MaxItems)}
    \cup {[answered |-> TRUE, bozo |-> TRUE, entries |-> Numbered(doc)] :
            doc \in SeqsUpTo(FeedEntryKinds, 1)}
    \cup {[answered |-> FALSE, bozo |-> FALSE, entries |-> << >>]}

\* A Hacker News story: fetched or not, dead or not, with a time or without.
StoryKinds ==
    {[status |-> "error", deleted |-> FALSE, dead |-> FALSE,
      link |-> 1, dated |-> FALSE, published |-> 0],
     [status |-> "ok", deleted |-> FALSE, dead |-> TRUE,
      link |-> 1, dated |-> FALSE, published |-> 0],
     [status |-> "ok", deleted |-> FALSE, dead |-> FALSE,
      link |-> 1, dated |-> FALSE, published |-> 0]}
    \cup {[status |-> "ok", deleted |-> FALSE, dead |-> FALSE,
           link |-> 1, dated |-> TRUE, published |-> p] : p \in Stamps}

\* What the Hacker News API answers: the top-stories call (a list of at most
\* one id), then each story.
HNResponses ==
    {[status |-> "ok", stories |-> Numbered(doc)] : doc \in SeqsUpTo(StoryKinds, 1)}
    \cup {[status |-> st, stories |-> << >>] : st \in {"timeout", "error"}}

ResponsesOf(kind) == IF kind = "rss" THEN FeedResponses ELSE HNResponses

\* The required weather settings, all given in the file.
WeatherSettings ==
    [k \in {"weather.api_key", "weather.latitude", "weather.longitude"} |-> Cfg("str", 2)]

\* The configurations of the service: one feed and Hacker News, the news kept
\* for 1 second, no weather settings; Hacker News alone, the news kept for the
\* default time and the weather for 1 second; no source at all and the weather
\* kept for the default time.
AppConfigs ==
    {[config_data |-> ("news.rss_feeds" :> Cfg("list", 1))
                      @@ ("news.cache_duration" :> Cfg("int", 1)),
      env |-> {}],
     [config_data |-> WeatherSettings @@ ("weather.cache_duration" :> Cfg("int", 1)),
      env |-> {}],
     [config_data |-> WeatherSettings @@ ("news.hackernews_enabled" :> Cfg("bool", 0)),
      env |-> {}]}

\* What the weather API answers: a payload with a temperature and a place, a
\* payload with an empty weather list, a timeout.
Payload(num, str, weather) == [num |-> num, str |-> str, weather |-> weather]
AppWeatherResponses ==
    {[status |-> "ok",
      data |-> Payload(("main.temp" :> 7234), ("name" :> "London"), "one")],
     [status |-> "timeout", data |-> Payload(<< >>, << >>, "absent")]}

InitApp ==
    /\ store = << >>
    /\ origin = << >>
    /\ now = 0
    /\ last = [op |-> "init"]
    /\ config \in AppConfigs
    /\ call = Idle
    /\ cache_instance = "None"
    /\ inflight = NoCaller
    /\ completed_sets = {}

BeginGetNewsAny == \E limit \in Limits, force_refresh \in BOOLEAN :
                       BeginGetNews(limit, force_refresh)
FetchSourceAny ==
    /\ call.pc = "fetching"
    /\ ~LoopDone(call.results, Sources(config))
    /\ \E response \in ResponsesOf(Sources(config)[Len(call.results) + 1].kind) :
           FetchSource(response)
GetCurrentWeatherApp == \E force_refresh \in BOOLEAN, response \in AppWeatherResponses :
                            GetCurrentWeather(force_refresh, response)

NextApp ==
    \/ BeginGetNewsAny
    \/ FetchSourceAny
    \/ FinishGetNews
    \/ GetCurrentWeatherApp
    \/ Tick

SpecApp == InitApp /\ [][NextApp]_vars

\* The service when a call that has begun keeps running: the loop takes its
\* next turn whenever it can, and the call finishes once the loop is done.
SpecAppLive ==
    InitApp /\ [][NextApp]_vars /\ WF_vars(FetchSourceAny) /\ WF_vars(FinishGetNews)

\* ------------------------------------------ the Cache under concurrent use
\* Each operation opens its own connection (Cache._get_connection); SQLite
\* runs each statement with its commit as one atomic step.  set, delete, clear
\* and clear_expired are one statement each.  get is a SELECT, then the test of
\* time.time() against expires_at, then, for an expired row, delete(key) on a
\* second connection: three steps, between which other callers may run.
ConcurrentValues == {Py("str", "x", << >>), Py("list", "", << >>)}

\* The key the callers contend for.
ContendedKeys == {"k1"}

SomeCallerIdle == \E c \in Callers : inflight[c].pc = "idle"

ConcurrentSet(key, value, ttl_seconds) ==
    /\ SomeCallerIdle
    /\ store' = CacheSetStore(store, key, value, ttl_seconds, now)
    /\ origin' = InsertOrReplace(origin, key, Written(value, ttl_seconds, now))
    /\ completed_sets' = completed_sets \cup {<<key, value>>}
    /\ last' = [op |-> "set", key |-> key]
    /\ UNCHANGED <<now, config, call, cache_instance, inflight>>

\* get, first step: SELECT value, expires_at FROM cache WHERE key = ?
GetSelect(c, key) ==
    /\ inflight[c].pc = "idle"
    /\ inflight' = [inflight EXCEPT ![c] =
                       [pc |-> "selected", key |-> key, found |-> key \in DOMAIN store,
                        row |-> IF key \in DOMAIN store THEN store[key] ELSE NoRow]]
    /\ UNCHANGED <<store, origin, now, last, config, call, cache_instance, completed_sets>>

\* The table as the SELECT of caller c saw it: the row it read, or none.
Snapshot(c) ==
    IF inflight[c].found THEN [k \in {inflight[c].key} |-> inflight[c].row] ELSE << >>

\* get, second step: no row, or the row has expired (delete comes next), or
\* the value is decoded and returned.
GetCheck(c) ==
    /\ inflight[c].pc = "selected"
    /\ IF CacheGetExpired(Snapshot(c), inflight[c].key, now)
       THEN /\ inflight' = [inflight EXCEPT ![c].pc = "expired"]
            /\ last' = last
       ELSE /\ inflight' = [inflight EXCEPT ![c] = IdleCaller]
            /\ last' = [op |-> "get", caller |-> c, key |-> inflight[c].key,
                        expired |-> FALSE,
                        result |-> CacheGetValue(Snapshot(c), inflight[c].key, now)]
    /\ UNCHANGED <<store, origin, now, config, call, cache_instance, completed_sets>>

\* get, third step: self.delete(key), then return None.
GetDelete(c) ==
    /\ inflight[c].pc = "expired"
    /\ store' = CacheDeleteStore(store, inflight[c].key)
    /\ origin' = Restrict(origin, DOMAIN store')
    /\ inflight' = [inflight EXCEPT ![c] = IdleCaller]
    /\ last' = [op |-> "get", caller |-> c, key |-> inflight[c].key,
                expired |-> TRUE, result |-> PyNone]
    /\ UNCHANGED <<now, config, call, cache_instance, completed_sets>>

ConcurrentSetAny ==
    \E key \in ContendedKeys, value \in ConcurrentValues, ttl_seconds \in {0, MaxTTL} :
        ConcurrentSet(key, value, ttl_seconds)
GetSelectAny == \E c \in Callers, key \in ContendedKeys : GetSelect(c, key)
GetCheckAny == \E c \in Callers : GetCheck(c)
GetDeleteAny == \E c \in Callers : GetDelete(c)

\* delete, clear and clear_expired by a concurrent caller (of these `last`
\* keeps the name alone).
ConcurrentDelete(key) ==
    /\ SomeCallerIdle
    /\ store' = CacheDeleteStore(store, key)
    /\ origin' = Restrict(origin, DOMAIN store')
    /\ last' = [op |-> "delete"]
    /\ UNCHANGED <<now, config, call, cache_instance, inflight, completed_sets>>

ConcurrentClear ==
    /\ SomeCallerIdle
    /\ store' = << >>
    /\ origin' = << >>
    /\ last' = [op |-> "clear"]
    /\ UNCHANGED <<now, config, call, cache_instance, inflight, completed_sets>>

ConcurrentClearExpired ==
    /\ SomeCallerIdle
    /\ store' = CacheClearExpiredStore(store, now)
    /\ origin' = Restrict(origin, DOMAIN store')
    /\ last' = [op |-> "clear_expired"]
    /\ UNCHANGED <<now, config, call, cache_instance, inflight, completed_sets>>

ConcurrentDeleteAny == \E key \in ContendedKeys : ConcurrentDelete(key)

NextConcurrent ==
    \/ ConcurrentSetAny
    \/ GetSelectAny
    \/ GetCheckAny
    \/ GetDeleteAny
    \/ ConcurrentDeleteAny
    \/ ConcurrentClear
    \/ ConcurrentClearExpired
    \/ Tick

SpecConcurrent == Init /\ [][NextConcurrent]_vars

\* ------------------------------------- the service on a damaged database
\* The keys the service caches under.
ServiceKeys == {NewsCacheKey, WeatherCacheKey}

\* Text in column `value` that is no JSON document.
Garbage == Json("garbage", "", << >>)

\* The database file is damaged from outside: the value of a row is no longer
\* the text json.dumps wrote.
Corrupt(key) ==
    /\ key \in DOMAIN store
    /\ store[key].value # Garbage
    /\ store' = [store EXCEPT ![key].value = Garbage]
    /\ last' = [op |-> "corrupt", key |-> key]
    /\ UNCHANGED <<origin, now, config, call, cache_instance, inflight, completed_sets>>

\* Between two calls of the service: the file is damaged, or a key is read.
CorruptAny == call.pc = "idle" /\ \E key \in ServiceKeys : Corrupt(key)
GetCached == call.pc = "idle" /\ \E key \in ServiceKeys : Get(key)

NextCorrupt ==
    \/ BeginGetNewsAny
    \/ FetchSourceAny
    \/ FinishGetNews
    \/ GetCurrentWeatherApp
    \/ GetCached
    \/ CorruptAny
    \/ Tick

SpecCorrupt == InitApp /\ [][NextCorrupt]_vars

\* ------------------------------------------------------ the HTTP endpoints
\* The query parameter limit as the client sent it: absent, a text that is no
\* integer, or the digits of n.
NoParam == [given |-> FALSE, int |-> FALSE, n |-> 0]
NotAnInt == [given |-> TRUE, int |-> FALSE, n |-> 0]
IntParam(n) == [given |-> TRUE, int |-> TRUE, n |-> n]
LimitParams ==
    {NoParam, NotAnInt} \cup {IntParam(n) : n \in (-1 .. MaxLimit) \cup {100, 101}}

\* request.args.get('limit', default=10, type=int): the default when the
\* parameter is absent or int() rejects its text.
ArgsGetLimit(param) == IF param.given /\ param.int THEN param.n ELSE 10

\* Variant of the test that has no upper bound.
LimitRejected_NoUpperBound(limit) == limit < 1

\* if limit < 1 or limit > 100:
LimitRejected(limit) == limit < 1 \/ limit > 100

\* jsonify(body), status
Response(status, body) == [status |-> status, body |-> body]
InvalidLimit ==
    Response(400, [error |-> "Invalid limit",
                   message |-> "Limit must be between 1 and 100"])

\* str(e): the message the exception was raised with.
Str(e) == [s |-> e.s, items |-> e.items]

\* The classes `except WeatherError` and `except NewsError` catch.
WeatherErrors == {"WeatherError", "WeatherAPIError", "WeatherConfigError"}
NewsErrors == {"NewsError", "NewsAPIError", "NewsParseError", "NewsConfigError"}

\* The weather handler after get_current_weather() has returned or raised.
ApiWeatherResponse(result) ==
    IF ~IsException(result) THEN Response(200, JsonDumps(result))
    ELSE IF result.t \in WeatherErrors
    THEN Response(500, [error |-> "Weather fetch failed", message |-> Str(result),
                        suggestion |-> "Check your API key and network connection"])
    ELSE Response(500, [error |-> "Unexpected error", message |-> Str(result)])

\* Variant of the news handler without its `except Exception` clause: any
\* other exception leaves the handler, and the framework answers with its own
\* error page.
ApiNewsResponse_NewsErrorOnly(result) ==
    IF ~IsException(result) THEN Response(200, JsonDumps(result))
    ELSE IF result.t \in NewsErrors
    THEN Response(500, [error |-> "News fetch failed", message |-> Str(result),
                        suggestion |-> "Check your network connection and RSS feed URLs"])
    ELSE Response(500, [html |-> "Internal Server Error"])

\* The news handler after get_current_news(limit=limit) has returned or raised.
ApiNewsResponse(result) ==
    IF ~IsException(result) THEN Response(200, JsonDumps(result))
    ELSE IF result.t \in NewsErrors
    THEN Response(500, [error |-> "News fetch failed", message |-> Str(result),
                        suggestion |-> "Check your network connection and RSS feed URLs"])
    ELSE Response(500, [error |-> "Unexpected error", message |-> Str(result)])

\* What the client is sent once the handler is done: the 400 of the limit
\* test, or the answer made from what the core returned or raised.
Sent ==
    CASE last.op = "response" -> last.response
      [] last.op = "get_news" -> ApiNewsResponse(last.result)
      [] last.op = "get_current_weather" -> ApiWeatherResponse(last.result)

\* A request arrives while no other is being served.
Request(path, param) ==
    /\ call.pc = "idle"
    /\ last.op # "request"
    /\ last' = [op |-> "request", path |-> path, param |-> param]
    /\ UNCHANGED <<store, origin, now, config, call, cache_instance,
                   inflight, completed_sets>>

RequestAny ==
    \/ \E param \in LimitParams : Request("/api/news", param)
    \/ Request("/api/weather", NoParam)

\* @app.route('/api/news'): the limit is read and tested; a rejected limit is
\* answered at once, any other is handed to get_current_news.
ApiNews ==
    /\ last.op = "request" /\ last.path = "/api/news"
    /\ LET limit == ArgsGetLimit(last.param)
       IN  IF LimitRejected(limit)
           THEN /\ last' = [op |-> "response", path |-> last.path,
                            response |-> InvalidLimit]
                /\ UNCHANGED <<store, origin, now, config, call, cache_instance,
                               inflight, completed_sets>>
           ELSE BeginGetNews(limit, FALSE)

\* @app.route('/api/weather'): get_current_weather().
ApiWeather ==
    /\ last.op = "request" /\ last.path = "/api/weather"
    /\ \E response \in AppWeatherResponses : GetCurrentWeather(FALSE, response)

\* Between two requests: time passes, or the database file is damaged.
BetweenRequests ==
    /\ last.op # "request"
    /\ (Tick \/ CorruptAny)

NextEndpoint ==
    \/ RequestAny
    \/ ApiNews
    \/ FetchSourceAny
    \/ FinishGetNews
    \/ ApiWeather
    \/ BetweenRequests

SpecEndpoint == InitApp /\ [][NextEndpoint]_vars

\* ---------------------------------------------- two overlapping requests
\* The server handles each request on its own thread.  Each caller makes one
\* call, get_news(limit) or get_weather(), without force_refresh; the steps
\* of the two calls interleave at the statements that touch the table:
\* the SELECT of cache.get, its expiry test, its delete, and cache.set.
Services == {"news", "weather"}
ServiceKey(svc) == IF svc = "news" THEN NewsCacheKey ELSE WeatherCacheKey
ServiceTTL(svc, cfg) == IF svc = "news" THEN NewsTTL(cfg) ELSE WeatherTTL(cfg)

\* Hacker News alone as the source, and the weather settings.
OverlapConfig ==
    [config_data |-> WeatherSettings @@ ("weather.cache_duration" :> Cfg("int", 1)),
     env |-> {}]

\* A row left by an earlier run, expired before the callers arrive.
StaleValue == Py("list", "", << >>)
StaleRow == NewRow(JsonDumps(StaleValue), 0, -1)

InitOverlap ==
    /\ store \in {<< >>, [k \in ServiceKeys |-> StaleRow]}
    /\ origin = [k \in DOMAIN store |-> Written(StaleValue, 0, -1)]
    /\ now = 0
    /\ last = [op |-> "init"]
    /\ config = OverlapConfig
    /\ call = Idle
    /\ cache_instance = "None"
    /\ inflight = NoCaller
    /\ completed_sets = {}

\* The calls that have returned or raised.
Returned == {c \in Callers : inflight[c].pc = "done"}

\* The call begins: the fetcher is constructed (get_cache()), and cache.get
\* runs its SELECT.
CallSelect(c, svc, limit) ==
    /\ inflight[c].pc = "idle"
    /\ LET key == ServiceKey(svc)
       IN  inflight' = [inflight EXCEPT ![c] =
                           [pc |-> "selected", svc |-> svc, key |-> key, limit |-> limit,
                            found |-> key \in DOMAIN store,
                            row |-> IF key \in DOMAIN store THEN store[key] ELSE NoRow,
                            cycle |-> FALSE, result |-> PyNone, returned |-> PyNone,
                            order |-> 0]]
    /\ cache_instance' = GetCache(cache_instance)
    /\ UNCHANGED <<store, origin, now, last, config, call, completed_sets>>

\* cache.get tests the row it read: expired (delete comes next), a hit (the
\* call returns the cached data, cut to limit for the news), or a miss.
CallCheck(c) ==
    /\ inflight[c].pc = "selected"
    /\ LET cached_data == CacheGetValue(Snapshot(c), inflight[c].key, now)
       IN  IF CacheGetExpired(Snapshot(c), inflight[c].key, now)
           THEN inflight' = [inflight EXCEPT ![c].pc = "expired"]
           ELSE IF cached_data = PyNone
           THEN inflight' = [inflight EXCEPT ![c].pc = "miss"]
           ELSE inflight' = [inflight EXCEPT
                                ![c].pc = "done",
                                ![c].order = Cardinality(Returned) + 1,
                                ![c].returned =
                                    IF inflight[c].svc = "news" /\ ~IsException(cached_data)
                                    THEN CachedSlice(cached_data, inflight[c].limit)
                                    ELSE cached_data]
    /\ UNCHANGED <<store, origin, now, last, config, call, cache_instance,
                   completed_sets>>

\* cache.get deletes the row it found expired, and returns None.
CallDelete(c) ==
    /\ inflight[c].pc = "expired"
    /\ store' = CacheDeleteStore(store, inflight[c].key)
    /\ origin' = Restrict(origin, DOMAIN store')
    /\ inflight' = [inflight EXCEPT ![c].pc = "miss"]
    /\ UNCHANGED <<now, last, config, call, cache_instance, completed_sets>>

\* The loop over the sources, responses[i] being the answer of source i.
RECURSIVE Collected(_, _, _, _, _)
Collected(n, sources, responses, limit, t) ==
    IF n = 0 THEN [all_articles |-> << >>, errors |-> << >>]
    ELSE LET prev   == Collected(n - 1, sources, responses, limit, t)
             result == FetchArticles(sources[n], responses[n], limit, t)
         IN  [all_articles |-> IF result.ok THEN prev.all_articles \o result.articles
                               ELSE prev.all_articles,
              errors |-> IF result.ok THEN prev.errors
                         ELSE AppendError(prev.errors, sources[n], result)]

\* The fetch cycle of the caller, on its own thread: what it will return or
\* raise.
CallFetchNews(c, responses) ==
    /\ inflight[c].pc = "miss" /\ inflight[c].svc = "news"
    /\ LET sources == Sources(config)
           got     == Collected(Len(sources), sources, responses, inflight[c].limit, now)
       IN  inflight' = [inflight EXCEPT
                           ![c].pc = "fetched", ![c].cycle = TRUE,
                           ![c].result = GetNewsResult(got.all_articles, got.errors,
                                                       inflight[c].limit)]
    /\ UNCHANGED <<store, origin, now, last, config, call, cache_instance,
                   completed_sets>>

CallFetchWeather(c, response) ==
    /\ inflight[c].pc = "miss" /\ inflight[c].svc = "weather"
    /\ inflight' = [inflight EXCEPT
                       ![c].pc = "fetched", ![c].cycle = TRUE,
                       ![c].result = FreshWeather(response, config, now)]
    /\ UNCHANGED <<store, origin, now, last, config, call, cache_instance,
                   completed_sets>>

\* The end of the call: the exception is raised, or the result is cached
\* (cache.set, one statement) and returned.
CallFinish(c) ==
    /\ inflight[c].pc = "fetched"
    /\ LET result == inflight[c].result
           key    == inflight[c].key
           ttl    == ServiceTTL(inflight[c].svc, config)
       IN  /\ store' = IF IsException(result) THEN store
                       ELSE CacheSetStore(store, key, result, ttl, now)
           /\ origin' = IF IsException(result) THEN origin
                        ELSE InsertOrReplace(origin, key, Written(result, ttl, now))
           /\ inflight' = [inflight EXCEPT
                               ![c].pc = "done",
                               ![c].order = Cardinality(Returned) + 1,
                               ![c].returned = result]
    /\ UNCHANGED <<now, last, config, call, cache_instance, completed_sets>>

CallSelectAny == \E c \in Callers, svc \in Services, limit \in 1 .. MaxLimit :
                     CallSelect(c, svc, IF svc = "news" THEN limit ELSE 0)
CallCheckAny == \E c \in Callers : CallCheck(c)
CallDeleteAny == \E c \in Callers : CallDelete(c)
CallFetchNewsAny ==
    \E c \in Callers, responses \in [1 .. Len(Sources(config)) -> HNResponses] :
        CallFetchNews(c, responses)
CallFetchWeatherAny ==
    \E c \in Callers, response \in AppWeatherResponses : CallFetchWeather(c, response)
CallFinishAny == \E c \in Callers : CallFinish(c)

NextOverlap ==
    \/ CallSelectAny
    \/ CallCheckAny
    \/ CallDeleteAny
    \/ CallFetchNewsAny
    \/ CallFetchWeatherAny
    \/ CallFinishAny
    \/ Tick

SpecOverlap == InitOverlap /\ [][NextOverlap]_vars

\* ------------------------------------------- the weather fetcher alone
\* Every way the three required settings can be given: each is missing from
\* the file, written there with no value, or written with a value; and its
\* environment variable is set or not.  The weather is kept for 1 second.
FileStates == {"missing", "null", "value"}
WeatherConfigs ==
    {[config_data |->
          [k \in {RequiredFields[i] : i \in {j \in 1 .. 3 : f[j] # "missing"}} |->
              LET i == CHOOSE j \in 1 .. 3 : RequiredFields[j] = k
              IN  IF f[i] = "null" THEN CfgNone ELSE Cfg("str", 2)]
          @@ ("weather.cache_duration" :> Cfg("int", 1)),
      env |-> e] :
        f \in [1 .. 3 -> FileStates], e \in SUBSET {RequiredFields[i] : i \in 1 .. 3}}

\* What the weather API answers: a full payload, a payload with no field, a
\* payload whose weather list is empty, and the three failures.
WeatherResponses ==
    {[status |-> "ok",
      data |-> Payload(("main.temp" :> 7234) @@ ("main.feels_like" :> 7016)
                       @@ ("main.humidity" :> 6500) @@ ("wind.speed" :> 1278),
                       ("name" :> "London") @@ ("sys.country" :> "GB")
                       @@ ("weather.main" :> "Clouds"), "one")],
     [status |-> "ok", data |-> Payload(<< >>, << >>, "absent")],
     [status |-> "ok", data |-> Payload(("main.temp" :> 7234), << >>, "empty")]}
    \cup {[status |-> st, data |-> Payload(<< >>, << >>, "absent")] :
            st \in {"timeout", "error", "bad_json"}}

InitWeather ==
    /\ store = << >>
    /\ origin = << >>
    /\ now = 0
    /\ last = [op |-> "init"]
    /\ config \in WeatherConfigs
    /\ call = Idle
    /\ cache_instance = "None"
    /\ inflight = NoCaller
    /\ completed_sets = {}

GetCurrentWeatherAny == \E force_refresh \in BOOLEAN, response \in WeatherResponses :
                            GetCurrentWeather(force_refresh, response)

NextWeather ==
    \/ GetCurrentWeatherAny
    \/ Tick

SpecWeather == InitWeather /\ [][NextWeather]_vars

\* ------------------------------------------------- the news sources alone
\* The feed documents: parsed with or without an error flagged (bozo), with
\* up to MaxItems + 1 entries of every kind.
SourceFeeds ==
    {[answered |-> TRUE, bozo |-> b, entries |-> Numbered(doc)] :
        b \in BOOLEAN, doc \in SeqsUpTo(FeedEntryKinds, MaxItems + 1)}

\* The ways the request for one story fails: requests.Timeout, an HTTP error
\* status (raise_for_status), a body that is no JSON (response.json() raises),
\* the body null (story.get raises AttributeError).
StoryFailures == {"timeout", "http_error", "bad_json", "null_body"}

\* A story as the source meets it: the request failed; the story is marked
\* deleted or dead; the story is there, with a time or without.
SourceStoryKinds ==
    {[status |-> f, deleted |-> FALSE, dead |-> FALSE,
      link |-> 1, dated |-> FALSE, published |-> 0] : f \in StoryFailures}
    \cup {[status |-> "ok", deleted |-> TRUE, dead |-> FALSE,
            link |-> 1, dated |-> FALSE, published |-> 0],
           [status |-> "ok", deleted |-> FALSE, dead |-> TRUE,
            link |-> 1, dated |-> TRUE, published |-> 1],
           [status |-> "ok", deleted |-> FALSE, dead |-> FALSE,
            link |-> 1, dated |-> FALSE, published |-> 0],
           [status |-> "ok", deleted |-> FALSE, dead |-> FALSE,
            link |-> 1, dated |-> TRUE, published |-> 1]}

\* The ways the top-stories call fails: requests.Timeout, another
\* RequestException (connection, HTTP error status), a body that is no list.
TopStoriesFailures == {"timeout", "error", "bad_json"}

\* What the Hacker News API answers: the list of ids (up to MaxItems + 1 of
\* them) with each story, or the list call fails.
SourceHNResponses ==
    {[status |-> "ok", stories |-> Numbered(doc)] :
        doc \in SeqsUpTo(SourceStoryKinds, MaxItems + 1)}
    \cup {[status |-> st, stories |-> << >>] : st \in TopStoriesFailures}

\* A call about to be made: fetch_articles(limit) on a source of the given
\* kind whose server will answer `response`.
SourceCall(kind, response, limit) ==
    [op |-> "call", kind |-> kind, response |-> response, limit |-> limit]
SourceCalls ==
    {SourceCall("rss", feed, limit) : feed \in SourceFeeds, limit \in Limits}
    \cup {SourceCall("hn", top, limit) : top \in SourceHNResponses, limit \in Limits}

\* A source object, the call it is about to get, and the time of the call.
InitSources ==
    /\ store = << >>
    /\ origin = << >>
    /\ now \in 0 .. MaxTime
    /\ last \in SourceCalls
    /\ config = EmptyConfig
    /\ call = Idle
    /\ cache_instance = "None"
    /\ inflight = NoCaller
    /\ completed_sets = {}

\* RSSFeedSource(feed_url, feed_name).fetch_articles(limit) where the document
\* at feed_url parses to last.response.
FetchFeed ==
    /\ last.op = "call" /\ last.kind = "rss"
    /\ last' = [op |-> "fetch_articles", kind |-> "rss", response |-> last.response,
                limit |-> last.limit,
                result |-> RSSFetchArticles(last.response, FeedNames[1], last.limit, now)]
    /\ UNCHANGED <<store, origin, now, config, call, cache_instance,
                   inflight, completed_sets>>

\* HackerNewsSource().fetch_articles(limit) where the API answers last.response.
FetchHackerNews ==
    /\ last.op = "call" /\ last.kind = "hn"
    /\ last' = [op |-> "fetch_articles", kind |-> "hn", response |-> last.response,
                limit |-> last.limit,
                result |-> HNFetchArticles(last.response, last.limit, now)]
    /\ UNCHANGED <<store, origin, now, config, call, cache_instance,
                   inflight, completed_sets>>

NextSources ==
    \/ FetchFeed
    \/ FetchHackerNews

SpecSources == InitSources /\ [][NextSources]_vars

\* --------------------------------------------- the weather transform alone
\* The fields _transform_response reads from the API answer, all optional:
\* the numbers (in hundredths) and the texts of a full answer.
FullNum ==
    ("main.temp" :> 7234) @@ ("main.feels_like" :> 7016) @@ ("main.temp_min" :> 6880)
    @@ ("main.temp_max" :> 7556) @@ ("main.humidity" :> 6500) @@ ("main.pressure" :> 101300)
    @@ ("wind.speed" :> 1278) @@ ("wind.deg" :> 24000) @@ ("clouds.all" :> 7500)
FullStr ==
    ("weather.main" :> "Clouds") @@ ("weather.description" :> "broken clouds")
    @@ ("weather.icon" :> "04d") @@ ("name" :> "London") @@ ("sys.country" :> "GB")
WeatherItemFields == {"weather.main", "weather.description", "weather.icon"}

\* The API answers: every subset of the fields present; the "weather" list
\* holds one item when a field of the item is present, and is absent, or
\* holds an item without fields, or is empty, when none is.
Payloads ==
    {Payload(Restrict(FullNum, N), Restrict(FullStr, S), w) :
        <<N, S, w>> \in {p \in (SUBSET DOMAIN FullNum) \X (SUBSET DOMAIN FullStr)
                                  \X {"absent", "one", "empty"} :
                            p[2] \cap WeatherItemFields # {} => p[3] = "one"}}

\* A WeatherFetcher (units not configured) and the answer it is about to transform.
InitTransform ==
    /\ store = << >>
    /\ origin = << >>
    /\ now = 0
    /\ last \in {[op |-> "api_data", api_data |-> p] : p \in Payloads}
    /\ config = EmptyConfig
    /\ call = Idle
    /\ cache_instance = "None"
    /\ inflight = NoCaller
    /\ completed_sets = {}

\* self._transform_response(api_data)
Transform ==
    /\ last.op = "api_data"
    /\ last' = [op |-> "transform_response", api_data |-> last.api_data,
                result |-> TransformResponse(last.api_data, config, now)]
    /\ UNCHANGED <<store, origin, now, config, call, cache_instance,
                   inflight, completed_sets>>

NextTransform == Transform

SpecTransform == InitTransform /\ [][NextTransform]_vars

\* ======================================================== Cache properties

\* A step that is get(k) made at the instant of the set(k, v, t), t > 0, that
\* wrote the row of k, where v is of a type in `types`, returns v.
RoundTripFor(types) ==
    \A k \in Keys :
        ( /\ last'.op = "get" /\ last'.key = k /\ now' = now
          /\ k \in DOMAIN origin
          /\ origin[k].at = now /\ origin[k].ttl > 0
          /\ origin[k].value.t \in types )
        => last'.result = origin[k].value

\* C1 as stated: set(k, v, t) with t > 0 followed immediately by get(k) returns v
\* unchanged, for every value v that json.dumps accepts.
C1_RoundTripEverySerializable ==
    [][RoundTripFor({v.t : v \in {w \in CacheValues : CanDump(w)}})]_vars

\* C1 amended: set(k, v, t) with t > 0 followed immediately by get(k) returns v
\* unchanged, for every value v of a type JSON decodes to (None, str, list, dict
\* with str keys), whatever rows the table held before.
C1_RoundTripJsonNative == [][RoundTripFor(JsonNativeTypes)]_vars

\* A get(k) has just returned the list that a set(k, list, t > 0) at this instant stored.
C1_Witness ==
    /\ last.op = "get" /\ last.key \in DOMAIN origin
    /\ origin[last.key].at = now /\ origin[last.key].ttl > 0
    /\ origin[last.key].value.t = "list"
    /\ last.result = origin[last.key].value
    /\ Cardinality(DOMAIN store) = 2

\* C2: once more than t seconds have passed since the set(k, v, t) that wrote the
\* row of k, get(k) returns None, and get_stats() afterwards counts one row less in
\* total_entries and in expired_entries and the same valid_entries.
C2_ExpiredGetAbsentAndUncounted ==
    [][\A k \in Keys :
        ( /\ last'.op = "get" /\ last'.key = k /\ now' = now
          /\ k \in DOMAIN origin
          /\ now - origin[k].at > origin[k].ttl )
        => /\ last'.result = PyNone
           /\ k \notin DOMAIN store'
           /\ CacheGetStats(store', now').total_entries
                = CacheGetStats(store, now).total_entries - 1
           /\ CacheGetStats(store', now').expired_entries
                = CacheGetStats(store, now).expired_entries - 1
           /\ CacheGetStats(store', now').valid_entries
                = CacheGetStats(store, now).valid_entries]_vars

\* A get(k) has found the row of k expired and returned None; another row is left.
C2_Witness ==
    /\ last.op = "get" /\ last.expired /\ last.result = PyNone
    /\ last.key \notin DOMAIN store
    /\ CacheGetStats(store, now).total_entries = 1

\* C11: a set(key, value, ttl) that succeeds leaves exactly one row for key,
\* holding the value just given with created_at = the time of the call and
\* expires_at = that time + ttl, whatever row key had before; the rows of the
\* other keys are as they were, and no other row appears.
C11_SetOverwritesAtomically ==
    [][(last'.op = "set" /\ last'.result = PyNone)
        => /\ DOMAIN store' = (DOMAIN store) \cup {last'.key}
           /\ store'[last'.key] = [value |-> JsonDumps(last'.value),
                                   expires_at |-> now + last'.ttl,
                                   created_at |-> now]
           /\ \A k \in (DOMAIN store) \ {last'.key} : store'[k] = store[k]]_vars

\* A set at time 1 has replaced the row its key had, with another value, while
\* the other key keeps the row written at time 0.
C11_Witness ==
    /\ last.op = "set" /\ last.existed /\ last.result = PyNone /\ last.key = "k1"
    /\ now = 1 /\ store["k1"].created_at = 1
    /\ store["k1"].value = Json("string", "x", << >>)
    /\ "k2" \in DOMAIN store /\ store["k2"].created_at = 0

\* C19: under every interleaving of the steps of concurrent set, get, delete,
\* clear and clear_expired calls, each key has at most one row (the table is
\* a function of the key), every stored value is the text of a value that a
\* committed set gave for that key, and every get returns None or such a value.
C19_ConcurrentAccessKeepsMapping ==
    /\ DOMAIN store \subseteq Keys
    /\ \A k \in DOMAIN store :
           \E p \in completed_sets : p[1] = k /\ store[k].value = JsonDumps(p[2])
    /\ last.op = "get"
         => \/ last.result = PyNone
            \/ \E p \in completed_sets : p[1] = last.key /\ last.result = p[2]

\* A get has returned the value it read while another caller has since set
\* another value for the key, and the other caller is inside a get of its own.
C19_Witness ==
    /\ last.op = "get" /\ last.caller = "c1" /\ last.result = Py("str", "x", << >>)
    /\ last.key \in DOMAIN store
    /\ store[last.key].value = Json("array", "", << >>)
    /\ inflight["c2"].pc = "expired"

\* C34: the delete that ends a get(k) which read an expired row removes that
\* row alone: when another caller has meanwhile set k with a ttl > 0, the row
\* that set wrote is still there after the get.
C34_LazyDeleteSparesNewerRow ==
    [][\A c \in Callers :
        ( /\ inflight[c].pc = "expired" /\ inflight'[c].pc = "idle"
          /\ inflight[c].key \in DOMAIN store
          /\ store[inflight[c].key] # inflight[c].row
          /\ origin[inflight[c].key].ttl > 0 )
        => /\ inflight[c].key \in DOMAIN store'
           /\ store'[inflight[c].key] = store[inflight[c].key]]_vars

\* C12: every stored row has expires_at > created_at.
C12_ExpiresAfterCreated ==
    \A k \in DOMAIN store : store[k].expires_at > store[k].created_at

\* C26: delete(key) returns True exactly when the table had a row for key; when
\* it has returned there is no row for key and a get(key) that follows
\* directly returns None; the rows of every other key are as they were.
C26_DeleteReportsPresence ==
    [][/\ last'.op = "delete"
          => /\ last'.result <=> (last'.key \in DOMAIN store)
             /\ last'.key \notin DOMAIN store'
             /\ \A k \in Keys \ {last'.key} :
                    /\ (k \in DOMAIN store') <=> (k \in DOMAIN store)
                    /\ k \in DOMAIN store => store'[k] = store[k]
       /\ (last.op = "delete" /\ last'.op = "get" /\ last'.key = last.key)
          => last'.result = PyNone]_vars

\* delete has removed the row of its key and returned True; the row of the
\* other key is still there.
C26_Witness ==
    /\ last.op = "delete" /\ last.result /\ last.key = "k1"
    /\ DOMAIN store = {"k2"}

\* C27: get_stats() at time now reports total_entries = the number of rows,
\* expired_entries = the number of rows with expires_at < now, and
\* valid_entries = their difference, which is the number of rows with
\* expires_at >= now and so never negative; it changes no row.
C27_StatsCountRows ==
    [][last'.op = "get_stats"
        => /\ last'.result.total_entries = Cardinality(DOMAIN store)
           /\ last'.result.expired_entries
                = Cardinality({k \in DOMAIN store : now > store[k].expires_at})
           /\ last'.result.valid_entries
                = last'.result.total_entries - last'.result.expired_entries
           /\ last'.result.valid_entries
                = Cardinality({k \in DOMAIN store : now <= store[k].expires_at})
           /\ last'.result.valid_entries >= 0
           /\ store' = store]_vars

\* get_stats() has counted two rows: one expired, one that expires now.
C27_Witness ==
    /\ last.op = "get_stats"
    /\ last.result = [total_entries |-> 2, expired_entries |-> 1, valid_entries |-> 1]
    /\ \E k \in DOMAIN store : store[k].expires_at = now

\* C28: set(key, value, ttl) with a value json.dumps cannot encode (a Python
\* set) raises CacheError and leaves the table as it was: a row key had keeps
\* its value and expires_at, and no row appears.
C28_UnserializableSetChangesNothing ==
    [][(last'.op = "set" /\ last'.value.t = "set")
        => /\ last'.result.t = "CacheError"
           /\ store' = store]_vars

\* set(k1, {..}, ttl) has raised at time 1 and the row of k1, written at time
\* 0, is still there.
C28_Witness ==
    /\ last.op = "set" /\ last.key = "k1" /\ last.value.t = "set"
    /\ last.existed /\ last.result.t = "CacheError"
    /\ now = 1 /\ "k1" \in DOMAIN store /\ store["k1"].created_at = 0
    /\ store["k1"].value = Json("string", "x", << >>)

\* C29: constructing a new Cache on the same database file leaves every row
\* as it was; a get(k) after the restart returns the value set before the
\* restart while the entry has not expired (now <= time of the set + ttl), and
\* get(k), restart, get(k) at one instant return the same.
C29_EntriesSurviveRestart ==
    [][/\ last'.op = "restart" => store' = store
       /\ \A k \in Keys :
              ( /\ last.op = "restart" /\ last'.op = "get" /\ last'.key = k
                /\ k \in DOMAIN origin
                /\ now <= origin[k].at + origin[k].ttl
                /\ origin[k].value.t \in JsonNativeTypes )
              => last'.result = origin[k].value
       /\ ( /\ last.op = "restart" /\ last.before.op = "get"
            /\ last'.op = "get" /\ last'.key = last.before.key )
          => last'.result = last.before.result]_vars

\* A restart at time 1 directly after a get(k1) that returned the text set at
\* time 0: the rows of both keys are still there.
C29_Witness ==
    /\ last.op = "restart" /\ now = 1
    /\ last.before.op = "get" /\ last.before.key = "k1"
    /\ last.before.result = Py("str", "x", << >>)
    /\ "k1" \in DOMAIN store /\ store["k1"].created_at = 0
    /\ store["k1"].value = Json("string", "x", << >>)
    /\ "k2" \in DOMAIN store

\* C35: after a set(k, v, t) with t > 0 that succeeded, for every value v that
\* set accepts (None included), has(k) answers True as long as the row of k
\* is the one that set wrote and it has not expired (now <= time of the set + t).
C35_HasTrueWhileStored ==
    [][\A k \in Keys :
        ( /\ last'.op = "has" /\ last'.key = k
          /\ k \in DOMAIN origin
          /\ origin[k].ttl > 0
          /\ now <= origin[k].at + origin[k].ttl )
        => last'.result]_vars

\* ========================================================= News properties

\* The records of the sources that answered with articles, in source order.
RECURSIVE RecordsOf(_)
RecordsOf(results) ==
    IF results = << >> THEN << >>
    ELSE LET head == RecordsOf(SubSeq(results, 1, Len(results) - 1))
             r    == results[Len(results)]
         IN  IF r.ok THEN head \o [i \in 1 .. Len(r.articles) |-> ToDict(r.articles[i])]
             ELSE head

\* `items` is a selection of `records` (each record used at most once) that
\* leaves out no record newer than one it holds.
NewestOf(items, records) ==
    \E f \in [DOMAIN items -> DOMAIN records] :
        /\ \A i, j \in DOMAIN items : i # j => f[i] # f[j]
        /\ \A i \in DOMAIN items : items[i] = records[f[i]]
        /\ \A j \in DOMAIN records :
              (\A i \in DOMAIN items : f[i] # j)
                  => \A i \in DOMAIN items : items[i].published >= records[j].published

\* get_news has just completed a fetch cycle (a cache miss or a forced refresh).
FetchCycleDone == last.op = "get_news" /\ ~last.hit

\* C3: after a fetch cycle in which at least one source returned a non-empty
\* list, get_news returns a list and raises nothing, whatever the other sources
\* did and wherever they sit; the list holds min(limit, n) of the n records of
\* the succeeding sources, the newest ones, and nothing else.
C3_PartialSuccessIsSuccess ==
    (FetchCycleDone /\ \E i \in DOMAIN last.results :
                           last.results[i].ok /\ last.results[i].articles # << >>)
        => /\ last.result.t = "list"
           /\ Len(last.result.items) = Min(last.limit, Len(RecordsOf(last.results)))
           /\ NewestOf(last.result.items, RecordsOf(last.results))

\* The first source failed, the second returned an article, and get_news
\* returned that article.
C3_Witness ==
    /\ FetchCycleDone /\ Len(last.results) = 2
    /\ ~last.results[1].ok
    /\ last.results[2].ok /\ last.results[2].articles # << >>
    /\ last.result.t = "list"
    /\ last.result.items = <<ToDict(last.results[2].articles[1])>>

\* C4: after a fetch cycle in which every configured source failed, get_news
\* raises NewsError, and the message holds the failure message of each source.
C4_TotalFailureCollectsEveryError ==
    (FetchCycleDone /\ last.results # << >>
                    /\ \A i \in DOMAIN last.results : ~last.results[i].ok)
        => /\ last.result.t = "NewsError"
           /\ last.result.s = "All news sources failed"
           /\ \A i \in DOMAIN last.results :
                 \E j \in DOMAIN last.result.items :
                     last.result.items[j] = [source |-> Sources(config)[i].name,
                                             error |-> last.results[i].error]

\* Two sources have failed with different messages and get_news has raised.
C4_Witness ==
    /\ FetchCycleDone /\ Len(last.results) = 2
    /\ ~last.results[1].ok /\ ~last.results[2].ok
    /\ last.results[1].error # last.results[2].error
    /\ last.result.t = "NewsError"

\* C5: the list get_news returns after a fetch cycle is ordered by published,
\* newest first: each element's published is >= the next one's.
C5_NewestFirst ==
    (FetchCycleDone /\ last.result.t = "list")
        => \A i \in 1 .. Len(last.result.items) - 1 :
               last.result.items[i].published >= last.result.items[i + 1].published

\* The article of the source fetched last is newer and is returned first.
C5_Witness ==
    /\ FetchCycleDone /\ last.result.t = "list"
    /\ Len(last.result.items) = 2
    /\ last.result.items[1].source = "HackerNews"
    /\ last.result.items[2].source # "HackerNews"
    /\ last.result.items[1].published > last.result.items[2].published

\* The articles the sources returned in the fetch cycle just completed.
FetchedArticles ==
    {last.results[i].articles[j] :
        <<i, j>> \in {p \in (DOMAIN last.results) \X (1 .. MaxItems + 1) :
                          p[2] \in DOMAIN last.results[p[1]].articles}}

\* The upstream item of the returned record d carried a published timestamp.
HadTimestamp(d) == \E a \in FetchedArticles : ToDict(a) = d /\ a.dated

\* C14: in the list get_news returns after a fetch cycle, every record whose
\* upstream item had a published timestamp precedes every record whose item
\* had none.
C14_UndatedSortLast ==
    (FetchCycleDone /\ last.result.t = "list")
        => \A i, j \in DOMAIN last.result.items :
               (HadTimestamp(last.result.items[i]) /\ ~HadTimestamp(last.result.items[j]))
                   => i < j

\* The place of the returned record d in the order the sources were iterated
\* and returned their records.
FetchOrder(d) ==
    LET records == RecordsOf(last.results)
    IN  CHOOSE p \in DOMAIN records : records[p] = d

C16_ResultCachedWithConfiguredTTL ==
    (FetchCycleDone /\ last.result.t = "list")
        => /\ Len(last.result.items) <= last.limit
           /\ NewsCacheKey \in DOMAIN store
           /\ store[NewsCacheKey].value = Json("array", "", last.result.items)
           /\ store[NewsCacheKey].created_at = now
           /\ store[NewsCacheKey].expires_at
                = now + (IF "news.cache_duration" \in DOMAIN config.config_data
                         THEN config.config_data["news.cache_duration"].n
                         ELSE 900)

\* With no news.cache_duration configured, a fetch cycle has returned a record
\* and the row expires 900 seconds from now.
C16_Witness ==
    /\ FetchCycleDone /\ last.result.t = "list" /\ Len(last.result.items) = 1
    /\ "news.cache_duration" \notin DOMAIN config.config_data
    /\ store[NewsCacheKey].expires_at = now + 900

\* C17: a get_news call that is not served from the cache has invoked
\* fetch_articles(limit) once on each configured source, in order, whether or
\* not an earlier source failed; a call served from the cache has invoked none.
C17_EverySourceFetchedOnce ==
    last.op = "get_news"
        => IF last.hit
           THEN last.fetched = << >> /\ last.results = << >>
           ELSE /\ last.fetched = [i \in DOMAIN Sources(config) |-> Sources(config)[i].name]
                /\ DOMAIN last.results = DOMAIN Sources(config)
                /\ \A i \in DOMAIN last.results :
                       Len(last.results[i].articles) <= last.limit

\* The feed failed and Hacker News was asked all the same, and returned nothing.
C17_Witness ==
    /\ FetchCycleDone
    /\ last.fetched = <<"RSS: bbci", "HackerNews">>
    /\ ~last.results[1].ok
    /\ last.results[2].ok /\ last.results[2].articles = << >>

\* C18: when a fetch cycle ends with no record from any source (every source
\* failed or returned an empty list, or there is no source), get_news raises
\* NewsError and the table is as it was; a list returned or cached by a fetch
\* cycle is never empty.
C18_EmptyUnionRaises ==
    [][(call.pc = "fetching" /\ call'.pc = "idle")
        => /\ last'.op = "get_news"
           /\ RecordsOf(call.results) = << >>
                => last'.result.t = "NewsError" /\ store' = store
           /\ last'.result.t = "list"
                => /\ last'.result.items # << >>
                   /\ store'[NewsCacheKey].value.items # << >>]_vars

\* Both sources answered with an empty list: get_news has raised and nothing
\* is cached.
C18_Witness ==
    /\ FetchCycleDone /\ Len(last.results) = 2
    /\ \A i \in DOMAIN last.results :
           last.results[i].ok /\ last.results[i].articles = << >>
    /\ last.result.t = "NewsError"
    /\ NewsCacheKey \notin DOMAIN store

\* C37: whatever get_news calls were made (hits, misses, forced refreshes,
\* failures) and however much time has passed, the row of the aggregated key,
\* when there is one, holds a list that is not empty, is ordered by published,
\* newest first, and whose elements are dicts with exactly the fields title,
\* link, source, published and description.
C37_CachedNewsWellFormed ==
    NewsCacheKey \in DOMAIN store
        => LET value == store[NewsCacheKey].value
           IN  /\ value.j = "array"
               /\ value.items # << >>
               /\ \A i \in 1 .. Len(value.items) - 1 :
                      value.items[i].published >= value.items[i + 1].published
               /\ \A i \in DOMAIN value.items :
                      DOMAIN value.items[i]
                        = {"title", "link", "source", "published", "description"}

\* A forced get_news has just failed while the aggregated key holds an
\* expired list of two records of different age.
C37_Witness ==
    /\ FetchCycleDone /\ last.force_refresh /\ last.result.t = "NewsError"
    /\ NewsCacheKey \in DOMAIN store
    /\ now > store[NewsCacheKey].expires_at
    /\ Len(store[NewsCacheKey].value.items) = 2
    /\ store[NewsCacheKey].value.items[1].published
         > store[NewsCacheKey].value.items[2].published

\* C20: every get_news call that has begun eventually returns or raises.
C20_EveryCallReturns == (call.pc # "idle") ~> (call.pc = "idle")

\* C31: a request to the news endpoint whose limit N is below 1 or above 100
\* is answered 400 and nothing else happens: no Cache is constructed, no row
\* is read or written, no fetch cycle begins; a request with 1 <= N <= 100
\* calls get_news with limit N, without force_refresh.
C31_LimitValidatedBeforeAnyWork ==
    [][( /\ last.op = "request" /\ last.path = "/api/news"
         /\ last.param.given /\ last.param.int )
       => IF last.param.n < 1 \/ last.param.n > 100
          THEN /\ last'.op = "response" /\ last'.response.status = 400
               /\ cache_instance' = cache_instance
               /\ store' = store
               /\ call' = Idle
          ELSE /\ last'.op \in {"get_news", "get_news_begin"}
               /\ last'.limit = last.param.n
               /\ ~last'.force_refresh
               /\ cache_instance' = "Cache"]_vars

\* A request has been answered 400 before any Cache was constructed.
C31_Witness ==
    /\ last.op = "response" /\ last.path = "/api/news"
    /\ Sent.status = 400
    /\ cache_instance = "None"
    /\ store = << >>

\* C32: whenever get_current_news or get_current_weather, called by its
\* handler, has raised (NewsError, WeatherAPIError, WeatherConfigError from
\* the construction of the fetcher, CacheError), the client is sent status
\* 500 with the fields error and message.
C32_FailuresAnswered500 ==
    (last.op \in {"get_news", "get_current_weather"} /\ IsException(last.result))
    => /\ Sent.status = 500
       /\ {"error", "message"} \subseteq DOMAIN Sent.body
       /\ Sent.body.message = Str(last.result)

\* The news handler has answered 500 "Unexpected error" to the CacheError
\* that reading a damaged row raised.
C32_Witness ==
    /\ last.op = "get_news" /\ last.result.t = "CacheError"
    /\ Sent.status = 500
    /\ Sent.body.error = "Unexpected error"

\* Both calls are for the same service, each found no usable row, ran its own
\* fetch cycle, and has returned its result.
BothCyclesReturned ==
    /\ \A c \in Callers : /\ inflight[c].pc = "done" /\ inflight[c].cycle
                          /\ ~IsException(inflight[c].result)
    /\ \A c, d \in Callers : inflight[c].svc = inflight[d].svc

\* The call that finished last.
LastWriter == CHOOSE c \in Callers : inflight[c].order = Cardinality(Callers)

\* C38: when two get_news calls, or two get_weather calls, have each run a
\* fetch cycle of their own, each has returned the result of its own cycle,
\* and the row of the service's key holds exactly the result of the call
\* that wrote last, whatever the other call produced.
C38_LastWriterWins ==
    BothCyclesReturned
    => /\ \A c \in Callers : inflight[c].returned = inflight[c].result
       /\ inflight[LastWriter].key \in DOMAIN store
       /\ store[inflight[LastWriter].key].value = JsonDumps(inflight[LastWriter].result)

\* Two get_news calls overlapped on an empty cache: neither SELECT found a
\* row, both cycles ran and produced different lists, c1 wrote first, and
\* the row holds the list of c2.
C38_Witness ==
    /\ BothCyclesReturned
    /\ \A c \in Callers : inflight[c].svc = "news" /\ ~inflight[c].found
    /\ inflight["c1"].result # inflight["c2"].result
    /\ inflight["c1"].order = 1
    /\ store[NewsCacheKey].value = JsonDumps(inflight["c2"].result)
    /\ store[NewsCacheKey].value # JsonDumps(inflight["c1"].result)

\* C33: the cached list is never longer than the limit of the request that
\* populated it, and a later get_news without force_refresh that finds the
\* row unexpired and asks for more than that limit is answered from the
\* cache with at most that many records, no source being fetched.
C33_WarmCacheUnderFills ==
    [][/\ NewsCacheKey \in DOMAIN store'
          => Len(store'[NewsCacheKey].value.items) <= origin'[NewsCacheKey].limit
       /\ ( /\ call.pc = "idle" /\ last'.op \in {"get_news", "get_news_begin"}
            /\ ~last'.force_refresh
            /\ NewsCacheKey \in DOMAIN store
            /\ now <= store[NewsCacheKey].expires_at
            /\ last'.limit > origin[NewsCacheKey].limit )
          => /\ last'.op = "get_news" /\ last'.hit
             /\ last'.fetched = << >> /\ call' = Idle
             /\ Len(last'.result.items) <= origin[NewsCacheKey].limit
             /\ store' = store]_vars

\* get_news(limit=2) has been answered from the list that a get_news(limit=1)
\* cached, with one record, both sources being configured.
C33_Witness ==
    /\ last.op = "get_news" /\ last.hit /\ ~last.force_refresh
    /\ last.limit = 2
    /\ Len(Sources(config)) = 2
    /\ NewsCacheKey \in DOMAIN store
    /\ origin[NewsCacheKey].limit = 1
    /\ Len(last.result.items) = 1

\* C36: a forced refresh that fails leaves the table as it was: no step of a
\* get_news(force_refresh=True) that ends by raising, and no
\* get_weather(force_refresh=True) that raises, changes a row; and a call
\* without force_refresh that follows directly, the cached row not being
\* expired, is answered with the value cached before.
C36_FailedRefreshKeepsEntry ==
    [][/\ ( \/ call.pc = "idle" /\ call'.pc = "fetching" /\ call'.force_refresh
            \/ /\ call.pc = "fetching" /\ call.force_refresh
               /\ ~(call'.pc = "idle" /\ last'.result.t = "list") )
          => store' = store
       /\ ( /\ last'.op = "get_current_weather" /\ last'.force_refresh
            /\ IsException(last'.result) )
          => store' = store
       /\ ( /\ last.op = "get_news" /\ last.force_refresh /\ IsException(last.result)
            /\ call.pc = "idle" /\ last'.op \in {"get_news", "get_news_begin"}
            /\ ~last'.force_refresh
            /\ NewsCacheKey \in DOMAIN store /\ now <= store[NewsCacheKey].expires_at )
          => /\ last'.op = "get_news" /\ last'.hit
             /\ Len(last'.result.items)
                  = Min(last'.limit, Len(origin[NewsCacheKey].value.items))
             /\ \A i \in DOMAIN last'.result.items :
                    last'.result.items[i] = origin[NewsCacheKey].value.items[i]
       /\ ( /\ last.op = "get_current_weather" /\ last.force_refresh
            /\ IsException(last.result) /\ last.constructed
            /\ last'.op = "get_current_weather" /\ ~last'.force_refresh
            /\ WeatherCacheKey \in DOMAIN store
            /\ now <= store[WeatherCacheKey].expires_at )
          => /\ last'.hit
             /\ last'.result = origin[WeatherCacheKey].value]_vars

\* A forced get_news has raised at time 1 and the list cached at time 0,
\* not expired, is still the row of the aggregated key.
C36_Witness ==
    /\ FetchCycleDone /\ last.force_refresh /\ last.warm
    /\ last.result.t = "NewsError"
    /\ now = 1
    /\ NewsCacheKey \in DOMAIN store
    /\ store[NewsCacheKey].created_at = 0
    /\ now <= store[NewsCacheKey].expires_at
    /\ origin[NewsCacheKey].at = 0

\* C6: a forced get_news is never answered from the cache: every configured
\* source is fetched, and when articles came the row of the aggregated key is
\* the fresh result, written now; a forced get_weather by a constructed fetcher
\* is never answered from the cache: the API is called, and when it succeeds
\* the row of the weather key is the fresh result, written now.
C6_ForcedRefreshBypassesCache ==
    /\ (last.op = "get_news" /\ last.force_refresh)
         => /\ ~last.hit
            /\ last.fetched = [i \in DOMAIN Sources(config) |-> Sources(config)[i].name]
            /\ last.result.t = "list"
                 => /\ NewsCacheKey \in DOMAIN store
                    /\ store[NewsCacheKey]
                         = [value |-> Json("array", "", last.result.items),
                            expires_at |-> now + NewsTTL(config), created_at |-> now]
    /\ (last.op = "get_current_weather" /\ last.force_refresh /\ last.constructed)
         => /\ ~last.hit
            /\ last.api_calls = 1
            /\ last.result.t = "dict"
                 => /\ WeatherCacheKey \in DOMAIN store
                    /\ store[WeatherCacheKey]
                         = [value |-> Json("object", last.result.s, last.result.items),
                            expires_at |-> now + WeatherTTL(config), created_at |-> now]

\* A forced get_news found an unexpired entry, fetched every source all the
\* same, and the row of the aggregated key is now the one it wrote.
C6_Witness ==
    /\ last.op = "get_news" /\ last.force_refresh /\ last.warm
    /\ last.fetched # << >>
    /\ last.result.t = "list"
    /\ origin[NewsCacheKey].at = now
    /\ origin[NewsCacheKey].value = last.result

\* C7: get_news(limit) without force_refresh, when the aggregated key has an
\* unexpired row, returns the first min(limit, length) records of the cached
\* list in cached order, starts no fetch, and leaves the table as it was.
C7_CacheHitPath ==
    [][( /\ call.pc = "idle" /\ last'.op \in {"get_news", "get_news_begin"}
         /\ ~last'.force_refresh
         /\ NewsCacheKey \in DOMAIN store /\ now <= store[NewsCacheKey].expires_at )
        => LET cached == store[NewsCacheKey].value.items
           IN  /\ last'.op = "get_news" /\ last'.hit
               /\ last'.result.t = "list"
               /\ Len(last'.result.items) = Min(last'.limit, Len(cached))
               /\ \A i \in DOMAIN last'.result.items : last'.result.items[i] = cached[i]
               /\ last'.fetched = << >>
               /\ call'.pc = "idle"
               /\ store' = store]_vars

\* get_news(1) has been answered from a cached list of two records.
C7_Witness ==
    /\ last.op = "get_news" /\ last.hit /\ last.limit = 1
    /\ Len(last.result.items) = 1
    /\ NewsCacheKey \in DOMAIN store
    /\ Len(store[NewsCacheKey].value.items) = 2

\* The row of key is there, is not expired, and cannot be decoded.
CorruptLive(key) ==
    /\ key \in DOMAIN store
    /\ now <= store[key].expires_at
    /\ ~CanLoad(store[key].value)

\* The row of key is there and cannot be decoded.
CorruptRow(key) == key \in DOMAIN store /\ ~CanLoad(store[key].value)

\* What get, get_news and get_weather do on a row for which holds(key): get
\* raises CacheError; get_news and get_weather (not forced) raise that error
\* and fetch nothing.
CorruptionRaises(holds(_)) ==
    /\ (last'.op = "get" /\ holds(last'.key)) => last'.result.t = "CacheError"
    /\ (call.pc = "idle" /\ last'.op \in {"get_news", "get_news_begin"}
          /\ ~last'.force_refresh /\ holds(NewsCacheKey))
         => /\ last'.op = "get_news" /\ last'.result.t = "CacheError"
            /\ last'.fetched = << >> /\ call'.pc = "idle"
    /\ (last'.op = "get_current_weather" /\ last'.constructed
          /\ ~last'.force_refresh /\ holds(WeatherCacheKey))
         => last'.result.t = "CacheError" /\ last'.api_calls = 0

\* C13: whenever the stored value of an entry cannot be decoded, get(key)
\* raises CacheError instead of returning None, and get_news / get_weather
\* reading the entry raise that error instead of fetching.
C13_CorruptionNeverAMiss == [][CorruptionRaises(CorruptRow)]_vars

\* C13, as the code has it: the same for an entry that has not expired (an
\* expired row is deleted and reported absent before it is decoded).
C13_LiveCorruptionNeverAMiss == [][CorruptionRaises(CorruptLive)]_vars

\* get_news has raised CacheError on a damaged, unexpired row of the
\* aggregated key, which is still there.
C13_Witness ==
    /\ last.op = "get_news" /\ ~last.force_refresh
    /\ last.result.t = "CacheError" /\ last.fetched = << >>
    /\ CorruptLive(NewsCacheKey)

\* ======================================================= Source properties

\* A source has just answered a fetch_articles call.
FeedFetched == last.op = "fetch_articles" /\ last.kind = "rss"
HackerNewsFetched == last.op = "fetch_articles" /\ last.kind = "hn"

\* The entries of the feed document that have a link.
UsableEntries(feed) == {i \in DOMAIN feed.entries : feed.entries[i].link # 0}

\* C21: fetch_articles of a feed source raises the parse error exactly when
\* the document was flagged as not parsable (bozo) and has no usable entry (no
\* entry with a link); otherwise it raises nothing: a flagged feed with usable
\* entries returns articles, a well-formed feed with no entries returns [].
C21_ParseErrorIffUnparsableAndNoUsable ==
    FeedFetched
        => /\ (last.result.error = "Failed to parse RSS feed")
                <=> (last.response.bozo /\ UsableEntries(last.response) = {})
           /\ last.result.ok
                <=> ~(last.response.bozo /\ UsableEntries(last.response) = {})

\* The stories among the first `limit` ids whose request succeeded and that
\* are marked neither deleted nor dead.
LiveStories(top, limit) ==
    {i \in DOMAIN top.stories :
        /\ i <= limit
        /\ top.stories[i].status \notin StoryFailures
        /\ ~top.stories[i].deleted
        /\ ~top.stories[i].dead}

\* C22: fetch_articles of the Hacker News source raises exactly when the
\* top-stories call failed; when that call succeeded it returns one article
\* for each of the first `limit` stories that could be fetched and is neither
\* deleted nor dead, and nothing else: a story whose request failed (timeout,
\* HTTP error, body undecodable or null) is skipped.
C22_ItemFailuresSkipped ==
    HackerNewsFetched
        => /\ last.result.ok <=> last.response.status \notin TopStoriesFailures
           /\ last.result.ok
                => LET articles == last.result.articles
                       live     == LiveStories(last.response, last.limit)
                   IN  /\ Len(articles) = Cardinality(live)
                       /\ \A j \in DOMAIN articles : articles[j].link \in live
                       /\ \A i \in live : \E j \in DOMAIN articles : articles[j].link = i

\* The request for the first story got a null body and the second story is
\* there: fetch_articles has returned the second story alone.
C22_Witness ==
    /\ HackerNewsFetched /\ last.limit = 2
    /\ Len(last.response.stories) = 2
    /\ last.response.stories[1].status = "null_body"
    /\ last.result.ok /\ Len(last.result.articles) = 1
    /\ last.result.articles[1].link = 2

\* C30: fetch_articles(limit) of either source returns at most limit articles,
\* for every limit >= 0 and every answer of the server; an item that cannot be
\* used (a feed entry without a link, a story that cannot be fetched) is left
\* out and the fetch does not fail for it: a feed with entries returns the
\* entries with a link among its first `limit`, in order.
C30_LimitEnforcedBadItemsDropped ==
    last.op = "fetch_articles"
        => /\ last.result.ok => Len(last.result.articles) <= last.limit
           /\ (FeedFetched /\ last.response.entries # << >>)
                => /\ last.result.ok
                   /\ Len(last.result.articles)
                        = Cardinality({i \in UsableEntries(last.response) : i <= last.limit})
                   /\ \A j \in DOMAIN last.result.articles :
                          /\ last.result.articles[j].link \in UsableEntries(last.response)
                          /\ last.result.articles[j].link <= last.limit
                   /\ \A j, k \in DOMAIN last.result.articles :
                          j < k => last.result.articles[j].link < last.result.articles[k].link
           /\ (HackerNewsFetched /\ last.response.status = "ok") => last.result.ok

\* A well-formed feed of two entries, the first without a link:
\* fetch_articles(2) has returned the second entry alone.
C30_Witness ==
    /\ FeedFetched /\ last.limit = 2 /\ ~last.response.bozo
    /\ Len(last.response.entries) = 2
    /\ last.response.entries[1].link = 0
    /\ last.result.ok /\ Len(last.result.articles) = 1
    /\ last.result.articles[1].link = 2

\* The upstream items of the answered call: the entries of the feed, the
\* stories of the list.
UpstreamItems ==
    IF last.kind = "rss" THEN last.response.entries ELSE last.response.stories

\* Item i of the upstream list is well-formed: an entry with a link; a story
\* that could be fetched and is neither deleted nor dead.
WellFormed(i) ==
    IF last.kind = "rss" THEN UpstreamItems[i].link # 0
    ELSE /\ UpstreamItems[i].status = "ok"
         /\ ~UpstreamItems[i].deleted /\ ~UpstreamItems[i].dead

\* C39: fetch_articles(limit) of either source, when it returns, returns the
\* well-formed items among the first `limit` upstream items, each once, in
\* upstream order: a well-formed item beyond the first `limit` is never
\* returned, however few of the first `limit` are well-formed.
C39_TruncateBeforeFilter ==
    (last.op = "fetch_articles" /\ last.result.ok)
        => LET articles == last.result.articles
               first    == {i \in DOMAIN UpstreamItems : i <= last.limit /\ WellFormed(i)}
           IN  /\ {articles[j].link : j \in DOMAIN articles} = first
               /\ \A j, k \in DOMAIN articles :
                      j < k => articles[j].link < articles[k].link

\* The list holds a dead story and then a live one: fetch_articles(1) of the
\* Hacker News source has returned nothing, although one story is live.
C39_Witness ==
    /\ HackerNewsFetched /\ last.limit = 1
    /\ Len(last.response.stories) = 2
    /\ last.response.stories[1].dead
    /\ last.response.stories[2].status = "ok"
    /\ ~last.response.stories[2].dead /\ ~last.response.stories[2].deleted
    /\ last.result.ok /\ last.result.articles = << >>

\* ====================================================== Weather properties

\* A setting is absent: no environment variable, and no value in the file.
Absent(cfg, key) ==
    /\ key \notin cfg.env
    /\ key \notin DOMAIN cfg.config_data \/ cfg.config_data[key] = CfgNone
SomeRequiredAbsent(cfg) == \E i \in DOMAIN RequiredFields : Absent(cfg, RequiredFields[i])

\* Construction raised WeatherConfigError with no API call and no entry read
\* or written, when a required setting is absent; it succeeded otherwise.
ValidatedEagerly ==
    last'.op = "get_current_weather"
        => IF SomeRequiredAbsent(config)
           THEN /\ last'.result.t = "WeatherConfigError"
                /\ ~last'.constructed
                /\ last'.api_calls = 0
                /\ last'.cache_reads = 0 /\ last'.cache_writes = 0
                /\ store' = store
           ELSE last'.constructed /\ last'.result.t # "WeatherConfigError"

\* The fields of the record _transform_response builds, with the field of the
\* API answer each is taken from.
NumericOutputs ==
    ("temperature" :> "main.temp") @@ ("feels_like" :> "main.feels_like")
    @@ ("temp_min" :> "main.temp_min") @@ ("temp_max" :> "main.temp_max")
    @@ ("humidity" :> "main.humidity") @@ ("pressure" :> "main.pressure")
    @@ ("wind_speed" :> "wind.speed") @@ ("wind_direction" :> "wind.deg")
    @@ ("cloudiness" :> "clouds.all")
StringOutputs ==
    ("condition" :> "weather.main") @@ ("description" :> "weather.description")
    @@ ("icon" :> "weather.icon") @@ ("location" :> "name") @@ ("country" :> "sys.country")

\* C23: for every API answer in which any of the optional fields (or whole
\* sub-objects) is absent, _transform_response raises nothing, and in the
\* record it returns every numeric field whose upstream field was absent is 0
\* and every string field whose upstream field was absent is a placeholder
\* text that is not empty.
C23_DefaultsZeroAndPlaceholder ==
    (last.op = "transform_response" /\ last.api_data.weather # "empty")
        => /\ last.result.t = "dict"
           /\ \A f \in DOMAIN NumericOutputs :
                  NumericOutputs[f] \notin DOMAIN last.api_data.num
                      => last.result.items[1][f] = 0
           /\ \A f \in DOMAIN StringOutputs :
                  StringOutputs[f] \notin DOMAIN last.api_data.str
                      => last.result.items[1][f] # ""

\* get_weather has just asked the API (a miss or a forced refresh).
WeatherFetched == last.op = "get_current_weather" /\ last.api_calls = 1

\* C24: a get_weather that asks the API fails with the upstream error when the
\* request fails (network, timeout, HTTP error status, body that is no JSON),
\* fails with a transform error of another type than the upstream error when
\* the answer breaks a structural assumption (an empty "weather" list), and
\* returns a record otherwise, whatever optional fields are missing.
C24_UpstreamAndTransformErrorsDistinct ==
    WeatherFetched
        => /\ last.response.status # "ok" => last.result.t = "WeatherAPIError"
           /\ (last.response.status = "ok" /\ last.response.data.weather = "empty")
                => IsException(last.result) /\ last.result.t # "WeatherAPIError"
           /\ (last.response.status = "ok" /\ last.response.data.weather # "empty")
                => last.result.t = "dict"

\* C25: get_weather without force_refresh, when the weather key has an
\* unexpired row, returns the cached record as it is, calls no API and leaves
\* the table as it was; when it has none, the API is called once, and on
\* success the record returned is the row of the weather key, written now,
\* expiring after weather.cache_duration, or 1800 seconds when that setting is
\* not given; a get_weather without force_refresh that directly follows at the
\* same instant is answered from the cache with an equal record.
C25_WeatherCacheAside ==
    [][/\ (last'.op = "get_current_weather" /\ last'.constructed /\ ~last'.force_refresh)
          => IF WeatherCacheKey \in DOMAIN store /\ now <= store[WeatherCacheKey].expires_at
             THEN /\ last'.hit /\ last'.api_calls = 0
                  /\ last'.result.t = "dict"
                  /\ Json("object", last'.result.s, last'.result.items)
                       = store[WeatherCacheKey].value
                  /\ store' = store
             ELSE /\ ~last'.hit /\ last'.api_calls = 1
                  /\ last'.result.t = "dict"
                       => /\ WeatherCacheKey \in DOMAIN store'
                          /\ store'[WeatherCacheKey]
                               = [value |-> Json("object", last'.result.s, last'.result.items),
                                  expires_at |->
                                      now + (IF "weather.cache_duration" \in DOMAIN config.config_data
                                             THEN config.config_data["weather.cache_duration"].n
                                             ELSE 1800),
                                  created_at |-> now]
       /\ ( /\ last.op = "get_current_weather" /\ ~last.hit /\ last.result.t = "dict"
            /\ last'.op = "get_current_weather" /\ ~last'.force_refresh /\ now' = now )
          => /\ last'.hit /\ last'.api_calls = 0
             /\ last'.result = last.result]_vars

\* With no weather.cache_duration configured, a get_weather has been answered
\* from the cache with the record a get_weather at this instant had stored.
C25_Witness ==
    /\ last.op = "get_current_weather" /\ ~last.force_refresh /\ last.hit
    /\ last.api_calls = 0 /\ last.result.t = "dict"
    /\ "weather.cache_duration" \notin DOMAIN config.config_data
    /\ origin[WeatherCacheKey].at = now
    /\ origin[WeatherCacheKey].value = last.result
    /\ store[WeatherCacheKey].expires_at = now + 1800

\* C8: WeatherFetcher() raises WeatherConfigError when weather.api_key,
\* weather.latitude or weather.longitude is absent, before any network call
\* and before the cache is touched in any way; it succeeds when all are present.
C8_ValidationBeforeAnyCacheAccess ==
    [][ValidatedEagerly
        /\ ((last'.op = "get_current_weather" /\ SomeRequiredAbsent(config))
               => cache_instance' = cache_instance)]_vars

\* C8, as the code has it: WeatherFetcher() raises WeatherConfigError when one
\* of the three settings is absent, before any network call and before any
\* cache entry is read or written (the Cache object is obtained first); it
\* succeeds when all three are present.
C8_ValidationBeforeFetchAndEntries == [][ValidatedEagerly]_vars

\* The API key and the latitude are given, the longitude is not, and the
\* constructor has raised with the table empty.
C8_Witness ==
    /\ last.op = "get_current_weather"
    /\ ~Absent(config, "weather.api_key") /\ ~Absent(config, "weather.latitude")
    /\ Absent(config, "weather.longitude")
    /\ last.result = WeatherConfigError("weather.longitude")
    /\ store = << >>

\* C9: clear_expired() at time now deletes exactly the rows with expires_at < now,
\* leaves every row with expires_at >= now as it was, and returns the number deleted.
C9_ClearExpiredExact ==
    [][(last'.op = "clear_expired" /\ now' = now)
        => /\ DOMAIN store' = {k \in DOMAIN store : store[k].expires_at >= now}
           /\ \A k \in DOMAIN store' : store'[k] = store[k]
           /\ last'.result
                = Cardinality({k \in DOMAIN store : store[k].expires_at < now})]_vars

\* clear_expired() has deleted a row and kept one whose expires_at is now.
C9_Witness ==
    /\ last.op = "clear_expired" /\ last.result >= 1
    /\ \E k \in DOMAIN store : store[k].expires_at = now

\* C10: has(k) is true exactly when get(k) at the same instant returns a value:
\* has(k) directly followed by get(k), and get(k) directly followed by has(k), agree;
\* and has(k) is false when the row of k has now > expires_at.
C10_HasEquivalentToGet ==
    [][/\ (last.op = "has" /\ last'.op = "get" /\ last'.key = last.key /\ now' = now)
          => (last.result <=> (last'.result # PyNone))
       /\ (last.op = "get" /\ last'.op = "has" /\ last'.key = last.key /\ now' = now)
          => ((last.result # PyNone) <=> last'.result)
       /\ (last'.op = "has" /\ now' = now /\ last'.key \in DOMAIN store
              /\ now > store[last'.key].expires_at)
          => ~last'.result]_vars

\* has(k) has just answered false for a row that was stored but expired.
C10_Witness ==
    last.op = "has" /\ last.expired /\ ~last.result

====
